---- MODULE Spec2Model ----
(***************************************************************************)
(* Session board server (pigeons-session-app).  The repository holds       *)
(* several revisions of the same socket.io server; `variant` says which    *)
(* one runs:                                                               *)
(*   "mem0"  src/server.js:542-702       plain in-memory sessions object   *)
(*   "p002"  src/unnamed/part_002        sqlite picks + in-memory sessions *)
(*   "pg"    src/unnamed/part_000, part_003   Postgres; the two files      *)
(*           have the same handlers and queries                            *)
(*   "srv-mem", "srv-fs"  src/server.js:423-533   the handlers over `api`  *)
(*           that take the caller's identity from socketMap, with the      *)
(*           in-memory or the Firestore backend                            *)
(* and, for the storage functions behind `api` taken on their own          *)
(* (SpecStore), which backend is in use:                                   *)
(*   "mem"   src/server.js:184-226 (= part_001:101-141)   Map of picks     *)
(*   "fs"    src/server.js:248-327                        Firestore        *)
(*   "pgs"   src/unnamed/part_001:144-197                 Postgres         *)
(* Spec runs requests one at a time, SpecConc lets them overlap, SpecLife  *)
(* adds closing connections and names of blanks, SpecIso lets requests     *)
(* name two sessions, SpecPair gives each storage call to the in-memory    *)
(* backend and to a durable one.                                           *)
(* A display name is a sequence of one-character tokens, so that key       *)
(* building and ordering are computed as the code computes them.           *)
(***************************************************************************)
EXTENDS Integers, Sequences, FiniteSets, TLC

VARIABLES
  variant,   \* which server revision is running
  db,        \* durable tables: sess (id -> owner), users, picks; the backend's contents
  sessions,  \* the in-process `sessions` object of mem0 / p002; socketMap of srv-*
  rooms,     \* socket.io rooms: socket -> set of session ids joined
  bound,     \* ghost: the names of each socket's completed joins: [last |-> name, all |-> set]
  task,      \* the handler invocation in flight on each socket (pre: ghost, what a
             \*   delete-user-board request found of its target when it arrived)
  out,       \* the events emitted by the last step; the last storage call
  nreq,      \* number of requests received so far
  nover,     \* number of requests that arrived while another was in flight
  lim        \* the run's bounds: [req |-> requests, over |-> overlapping requests,
             \*   sids |-> the session ids requests name]

vars == <<variant, db, sessions, rooms, bound, task, out, nreq, nover, lim>>

\* ------------------------------------------------------------ bounds
MaxRequests == 4
MaxConcRequests == 3
MaxOverlaps == 1

Sockets == {1, 2}
NoSocket == 0
SessionIds == {"s1"}
Names == {<<"a">>, <<"b">>}
Null == <<>>
SlotInputs == {"Opener", "Bogus"}
ValueInputs == {"", "X"}
PgVariants == {"pg"}
Variants == PgVariants \cup {"mem0", "p002"}

\* ------------------------------------------------------------ constants
SONG_SLOTS == {"Opener", "Song 2", "Song 3", "Song 4", "Song 5", "Encore", "Cover", "Bustout"}

\* ------------------------------------------------------------ helpers
Byte(c) ==
  CASE c = " " -> 32
    [] c = "/" -> 47
    [] c = "A" -> 65
    [] c = "B" -> 66
    [] c = "_" -> 95
    [] c = "a" -> 97
    [] c = "b" -> 98
    [] c = "|" -> 124

\* ORDER BY username COLLATE "C": byte-wise comparison
RECURSIVE CLess(_, _)
CLess(x, y) ==
  IF x = <<>> THEN y # <<>>
  ELSE IF y = <<>> THEN FALSE
  ELSE IF Byte(Head(x)) # Byte(Head(y)) THEN Byte(Head(x)) < Byte(Head(y))
  ELSE CLess(Tail(x), Tail(y))

RECURSIVE SortC(_)
SortC(S) ==
  IF S = {} THEN <<>>
  ELSE LET m == CHOOSE m \in S : \A o \in S \ {m} : CLess(m, o)
       IN <<m>> \o SortC(S \ {m})

EmptySnap == [owner |-> Null, users |-> <<>>, userSongs |-> <<>>]

Idle == [op |-> "idle", pc |-> "", sid |-> "", user |-> Null, slot |-> "",
         value |-> "", acc |-> EmptySnap, pre |-> <<>>, seen |-> {}]

Task(op, pc, sid, user, slot, value) ==
  [op |-> op, pc |-> pc, sid |-> sid, user |-> user, slot |-> slot,
   value |-> value, acc |-> EmptySnap, pre |-> <<>>, seen |-> {}]

\* socket.emit(type, msg): to the requesting socket only
Emit(s, type, msg) == [type |-> type, to |-> {s}, msg |-> msg, state |-> EmptySnap]

\* io.emit('update-session', state): to every connected socket, whatever its room
BroadcastEverywhere(sid, state) ==
  [type |-> "update-session", to |-> Sockets, msg |-> sid, state |-> state]

\* io.to(room).emit('update-session', state): to every socket in the room
Broadcast(sid, state) ==
  [type |-> "update-session", to |-> {s \in Sockets : sid \in rooms[s]},
   msg |-> sid, state |-> state]

\* the socket's join record after a successful join as u
JoinedAs(b, u) == [last |-> u, all |-> b.all \cup {u}]

\* obj[k] = v
SetKey(f, k, v) == [x \in DOMAIN f \cup {k} |-> IF x = k THEN v ELSE f[x]]

\* delete obj[k]
DelKey(f, k) == [x \in DOMAIN f \ {k} |-> f[x]]

\* users.find(u => u.socketId === socket.id): index of the first match, 0 if none
FindBySocket(users, s) ==
  LET I == {i \in 1..Len(users) : users[i].socketId = s}
  IN IF I = {} THEN 0 ELSE CHOOSE i \in I : \A j \in I : i <= j

\* users.find(u => u.username === username): index of the first match, 0 if none
FindByName(users, u) ==
  LET I == {i \in 1..Len(users) : users[i].username = u}
  IN IF I = {} THEN 0 ELSE CHOOSE i \in I : \A j \in I : i <= j

\* a request arrives on socket s (which has none in flight); the run is bounded
Arrive(s) ==
  /\ task[s] = Idle
  /\ nreq < lim.req
  /\ nreq' = nreq + 1
  /\ lim' = lim
  /\ IF \A o \in Sockets : task[o].pc = ""
     THEN nover' = nover
     ELSE nover < lim.over /\ nover' = nover + 1

\* rows of user_picks of one session, as { username: { slot: value } }
RowsToSongs(picks, sid) ==
  LET us == {k[2] : k \in {k \in DOMAIN picks : k[1] = sid}}
  IN [u \in us |->
        [sl \in {k[3] : k \in {k \in DOMAIN picks : k[1] = sid /\ k[2] = u}} |->
           picks[<<sid, u, sl>>]]]

\* whether u is a participant of session sid and what u's boards hold (none:
\* <<>>), in storage d and, for the sqlite revision, the process memory m
TargetView(d, m, sid, u) ==
  LET songs == RowsToSongs(d.picks, sid)
      rows == IF u \in DOMAIN songs THEN <<songs[u]>> ELSE <<>>
  IN IF variant = "p002"
     THEN [member |-> sid \in DOMAIN m /\ FindByName(m[sid].users, u) # 0,
           board |-> <<rows, IF sid \in DOMAIN m /\ u \in DOMAIN m[sid].userSongs
                             THEN <<m[sid].userSongs[u]>> ELSE <<>>>>]
     ELSE [member |-> <<sid, u>> \in d.users, board |-> <<rows>>]

\* ------------------------------------------------------------ Postgres revisions
\* INSERT INTO sessions (id) VALUES ($1) ON CONFLICT (id) DO NOTHING
InsertSession(d, sid) ==
  IF sid \in DOMAIN d.sess THEN d
  ELSE [d EXCEPT !.sess = [i \in DOMAIN d.sess \cup {sid} |->
                             IF i = sid THEN Null ELSE d.sess[i]]]

\* UPDATE sessions SET owner = $1: the assignment without COALESCE, which a
\* later join would overwrite
OverwriteOwner(d, sid, u) ==
  IF sid \in DOMAIN d.sess THEN [d EXCEPT !.sess[sid] = u] ELSE d

\* UPDATE sessions SET owner = COALESCE(owner, $1) WHERE id = $2
CoalesceOwner(d, sid, u) ==
  IF sid \in DOMAIN d.sess /\ d.sess[sid] = Null
  THEN [d EXCEPT !.sess[sid] = u]
  ELSE d

\* INSERT INTO session_users ... ON CONFLICT DO NOTHING
InsertUser(d, sid, u) == [d EXCEPT !.users = @ \cup {<<sid, u>>}]

\* INSERT INTO user_picks ... ON CONFLICT DO UPDATE SET value = EXCLUDED.value
UpsertRow(d, sid, u, slot, v) ==
  [d EXCEPT !.picks = [k \in DOMAIN d.picks \cup {<<sid, u, slot>>} |->
                         IF k = <<sid, u, slot>> THEN v ELSE d.picks[k]]]

\* DELETE FROM user_picks WHERE <keep fails>
DeleteRows(d, gone) ==
  [d EXCEPT !.picks = [k \in DOMAIN d.picks \ gone |-> d.picks[k]]]

PgJoin(s, sid, u) ==
  /\ variant \in PgVariants
  /\ Arrive(s)
  /\ IF sid = "" \/ u = Null
     THEN /\ out' = <<Emit(s, "error", "Invalid session or username")>>
          /\ task' = task
     ELSE /\ out' = <<>>
          /\ task' = [task EXCEPT ![s] = Task("join", "ensS", sid, u, "", "")]
  /\ UNCHANGED <<variant, db, sessions, rooms, bound>>

PgSetSong(s, sid, slot, value, u) ==
  /\ variant \in PgVariants
  /\ Arrive(s)
  /\ IF slot \notin SONG_SLOTS
     THEN task' = task
     ELSE task' = [task EXCEPT ![s] = Task("set-song", "ensS", sid, u, slot, value)]
  /\ out' = <<>>
  /\ UNCHANGED <<variant, db, sessions, rooms, bound>>

PgDeleteSong(s, sid, slot, u) ==
  /\ variant \in PgVariants
  /\ Arrive(s)
  /\ task' = [task EXCEPT ![s] = Task("delete-song", "del", sid, u, slot, "")]
  /\ out' = <<>>
  /\ UNCHANGED <<variant, db, sessions, rooms, bound>>

PgDeleteUserBoard(s, sid, target) ==
  /\ variant \in PgVariants
  /\ Arrive(s)
  /\ task' = [task EXCEPT ![s] =
                [Task("delete-user-board", "delP", sid, target, "", "")
                   EXCEPT !.pre = <<TargetView(db, sessions, sid, target)>>]]
  /\ out' = <<>>
  /\ UNCHANGED <<variant, db, sessions, rooms, bound>>

PgClearAll(s, sid) ==
  /\ variant \in PgVariants
  /\ Arrive(s)
  /\ task' = [task EXCEPT ![s] = Task("clear-all", "clr", sid, Null, "", "")]
  /\ out' = <<>>
  /\ UNCHANGED <<variant, db, sessions, rooms, bound>>

\* ensureSession, first query
\* what buildSessionState would return if its three queries ran at once on d
PgView(d, sid) ==
  [owner |-> IF sid \in DOMAIN d.sess THEN d.sess[sid] ELSE Null,
   users |-> LET names == SortC({p[2] : p \in {p \in d.users : p[1] = sid}})
             IN [i \in 1..Len(names) |-> [socketId |-> NoSocket, username |-> names[i]]],
   userSongs |-> RowsToSongs(d.picks, sid)]

\* a committed statement is visible to every buildSessionState that is between
\* its first and its last query: seen collects the session's states since the first
Witnessed(t, d) ==
  [o \in Sockets |->
     IF t[o].pc \in {"rdU", "rdP"}
     THEN [t[o] EXCEPT !.seen = @ \cup {PgView(d, t[o].sid)}] ELSE t[o]]

PgEnsureSessionInsert(s) ==
  /\ variant \in PgVariants
  /\ task[s].pc = "ensS"
  /\ db' = InsertSession(db, task[s].sid)
  /\ task' = Witnessed([task EXCEPT ![s].pc = IF task[s].op = "join" THEN "ensO" ELSE "ensU"], db')
  /\ out' = <<>>
  /\ UNCHANGED <<variant, sessions, rooms, bound, nreq, nover, lim>>

\* ensureSession, second query (only with maybeOwner: the join)
PgEnsureSessionOwner(s) ==
  /\ variant \in PgVariants
  /\ task[s].pc = "ensO"
  /\ db' = CoalesceOwner(db, task[s].sid, task[s].user)
  /\ task' = Witnessed([task EXCEPT ![s].pc = "ensU"], db')
  /\ out' = <<>>
  /\ UNCHANGED <<variant, sessions, rooms, bound, nreq, nover, lim>>

\* ensureUser, then (join) socket.join + 'joined', or (set-song) on to the upsert
PgEnsureUser(s) ==
  /\ variant \in PgVariants
  /\ task[s].pc = "ensU"
  /\ db' = InsertUser(db, task[s].sid, task[s].user)
  /\ IF task[s].op = "join"
     THEN /\ rooms' = [rooms EXCEPT ![s] = @ \cup {task[s].sid}]
          /\ out' = <<Emit(s, "joined", task[s].sid)>>
          /\ task' = Witnessed([task EXCEPT ![s].pc = "rdO"], db')
     ELSE /\ rooms' = rooms
          /\ out' = <<>>
          /\ task' = Witnessed([task EXCEPT ![s].pc = "ups"], db')
  /\ UNCHANGED <<variant, sessions, bound, nreq, nover, lim>>

PgUpsertPick(s) ==
  /\ variant \in PgVariants
  /\ task[s].pc = "ups"
  /\ db' = UpsertRow(db, task[s].sid, task[s].user, task[s].slot, task[s].value)
  /\ task' = Witnessed([task EXCEPT ![s].pc = "rdO"], db')
  /\ out' = <<>>
  /\ UNCHANGED <<variant, sessions, rooms, bound, nreq, nover, lim>>

PgDeletePick(s) ==
  /\ variant \in PgVariants
  /\ task[s].pc = "del"
  /\ db' = DeleteRows(db, {<<task[s].sid, task[s].user, task[s].slot>>})
  /\ task' = Witnessed([task EXCEPT ![s].pc = "rdO"], db')
  /\ out' = <<>>
  /\ UNCHANGED <<variant, sessions, rooms, bound, nreq, nover, lim>>

PgDeleteBoardPicks(s) ==
  /\ variant \in PgVariants
  /\ task[s].pc = "delP"
  /\ db' = DeleteRows(db, {k \in DOMAIN db.picks :
                             k[1] = task[s].sid /\ k[2] = task[s].user})
  /\ task' = Witnessed([task EXCEPT ![s].pc = "delU"], db')
  /\ out' = <<>>
  /\ UNCHANGED <<variant, sessions, rooms, bound, nreq, nover, lim>>

\* a removal that also gives up the ownership of the removed participant
PgDeleteBoardUserAndOwner(s) ==
  /\ variant \in PgVariants
  /\ task[s].pc = "delU"
  /\ db' = [db EXCEPT !.users = @ \ {<<task[s].sid, task[s].user>>},
                      !.sess[task[s].sid] = IF @ = task[s].user THEN Null ELSE @]
  /\ task' = Witnessed([task EXCEPT ![s].pc = "rdO"], db')
  /\ out' = <<>>
  /\ UNCHANGED <<variant, sessions, rooms, bound, nreq, nover, lim>>

PgDeleteBoardUser(s) ==
  /\ variant \in PgVariants
  /\ task[s].pc = "delU"
  /\ db' = [db EXCEPT !.users = @ \ {<<task[s].sid, task[s].user>>}]
  /\ task' = Witnessed([task EXCEPT ![s].pc = "rdO"], db')
  /\ out' = <<>>
  /\ UNCHANGED <<variant, sessions, rooms, bound, nreq, nover, lim>>

PgClearPicks(s) ==
  /\ variant \in PgVariants
  /\ task[s].pc = "clr"
  /\ db' = DeleteRows(db, {k \in DOMAIN db.picks : k[1] = task[s].sid})
  /\ task' = Witnessed([task EXCEPT ![s].pc = "rdO"], db')
  /\ out' = <<>>
  /\ UNCHANGED <<variant, sessions, rooms, bound, nreq, nover, lim>>

\* buildSessionState: three separate queries
PgReadOwner(s) ==
  /\ variant \in PgVariants
  /\ task[s].pc = "rdO"
  /\ task' = [task EXCEPT ![s].pc = "rdU",
                          ![s].acc.owner = IF task[s].sid \in DOMAIN db.sess
                                           THEN db.sess[task[s].sid] ELSE Null,
                          ![s].seen = {PgView(db, task[s].sid)}]
  /\ out' = <<>>
  /\ UNCHANGED <<variant, db, sessions, rooms, bound, nreq, nover, lim>>

PgReadUsers(s) ==
  /\ variant \in PgVariants
  /\ task[s].pc = "rdU"
  /\ LET names == SortC({p[2] : p \in {p \in db.users : p[1] = task[s].sid}})
     IN task' = [task EXCEPT ![s].pc = "rdP",
                             ![s].acc.users =
                               [i \in 1..Len(names) |->
                                  [socketId |-> NoSocket, username |-> names[i]]]]
  /\ out' = <<>>
  /\ UNCHANGED <<variant, db, sessions, rooms, bound, nreq, nover, lim>>

PgReadPicks(s) ==
  /\ variant \in PgVariants
  /\ task[s].pc = "rdP"
  /\ out' = <<Broadcast(task[s].sid,
                        [task[s].acc EXCEPT !.userSongs = RowsToSongs(db.picks, task[s].sid)])>>
  /\ bound' = IF task[s].op = "join"
              THEN [bound EXCEPT ![s] = JoinedAs(@, task[s].user)] ELSE bound
  /\ task' = [task EXCEPT ![s] = Idle]
  /\ UNCHANGED <<variant, db, sessions, rooms, nreq, nover, lim>>

PgErrorMsg(op) ==
  CASE op = "join" -> "Join failed"
    [] op = "set-song" -> "Save failed"
    [] op = "delete-song" -> "Delete failed"
    [] op = "delete-user-board" -> "Delete board failed"
    [] op = "clear-all" -> "Clear failed"

\* a catch block that also publishes the snapshot read so far
PgFailsAndPublishes(s) ==
  /\ variant \in PgVariants
  /\ task[s].pc # ""
  /\ out' = <<Emit(s, "error", PgErrorMsg(task[s].op)), Broadcast(task[s].sid, task[s].acc)>>
  /\ task' = [task EXCEPT ![s] = Idle]
  /\ UNCHANGED <<variant, db, sessions, rooms, bound, nreq, nover, lim>>

\* a pending query rejects: the handler's catch block
PgQueryFails(s) ==
  /\ variant \in PgVariants
  /\ task[s].pc # ""
  /\ out' = <<Emit(s, "error", PgErrorMsg(task[s].op))>>
  /\ task' = [task EXCEPT ![s] = Idle]
  /\ UNCHANGED <<variant, db, sessions, rooms, bound, nreq, nover, lim>>

\* ------------------------------------------------------------ mem0: in-memory sessions
M0Create(s, sid) ==
  /\ variant = "mem0"
  /\ Arrive(s)
  /\ IF sid = ""
     THEN /\ out' = <<Emit(s, "error", "Invalid session name.")>>
          /\ UNCHANGED <<sessions, rooms>>
     ELSE /\ sessions' = IF sid \in DOMAIN sessions THEN sessions
                         ELSE SetKey(sessions, sid, [users |-> <<>>, userSongs |-> <<>>])
          /\ rooms' = [rooms EXCEPT ![s] = @ \cup {sid}]
          /\ out' = <<Emit(s, "created", sid)>>
  /\ UNCHANGED <<variant, db, bound, task>>

\* the session object after join's steps 1 and 2
M0Joined(sess, s, u) ==
  LET i == FindByName(sess.users, u)
  IN [sess EXCEPT
        !.userSongs = IF u \in DOMAIN sess.userSongs THEN @ ELSE SetKey(@, u, <<>>),
        !.users = IF i # 0 THEN [@ EXCEPT ![i].socketId = s]
                  ELSE Append(@, [socketId |-> s, username |-> u])]

M0Join(s, sid, u) ==
  /\ variant = "mem0"
  /\ Arrive(s)
  /\ IF sid = "" \/ u = Null
     THEN /\ out' = <<Emit(s, "error", "Invalid session or username")>>
          /\ UNCHANGED <<sessions, rooms, bound>>
     ELSE LET sess == IF sid \in DOMAIN sessions THEN sessions[sid]
                      ELSE [users |-> <<>>, userSongs |-> <<>>]
              new == M0Joined(sess, s, u)
          IN /\ sessions' = SetKey(sessions, sid, new)
             /\ rooms' = [rooms EXCEPT ![s] = @ \cup {sid}]
             /\ bound' = [bound EXCEPT ![s] = JoinedAs(@, u)]
             /\ out' = <<Emit(s, "joined", sid),
                         [type |-> "update-session", to |-> {o \in Sockets : sid \in rooms'[o]},
                          msg |-> sid, state |-> new]>>
  /\ UNCHANGED <<variant, db, task>>

M0SetSong(s, sid, slot, value, u) ==
  /\ variant = "mem0"
  /\ Arrive(s)
  /\ IF sid \notin DOMAIN sessions
     THEN out' = <<>> /\ sessions' = sessions
     ELSE LET sess == sessions[sid]
              i == FindBySocket(sess.users, s)
          IN IF i = 0 \/ sess.users[i].username # u
             THEN /\ out' = <<Emit(s, "error", "You can only edit your own board.")>>
                  /\ sessions' = sessions
             ELSE LET board == IF u \in DOMAIN sess.userSongs THEN sess.userSongs[u] ELSE <<>>
                      new == [sess EXCEPT !.userSongs = SetKey(@, u, SetKey(board, slot, value))]
                  IN /\ sessions' = [sessions EXCEPT ![sid] = new]
                     /\ out' = <<Broadcast(sid, new)>>
  /\ UNCHANGED <<variant, db, rooms, bound, task>>

M0ClearSlot(s, sid, slot, u) ==
  /\ variant = "mem0"
  /\ Arrive(s)
  /\ IF sid \notin DOMAIN sessions
     THEN out' = <<>> /\ sessions' = sessions
     ELSE LET sess == sessions[sid]
              i == FindBySocket(sess.users, s)
          IN IF i = 0
             THEN out' = <<>> /\ sessions' = sessions
             ELSE IF sess.users[i].username # u
             THEN /\ out' = <<Emit(s, "error", "You cannot clear another user's picks.")>>
                  /\ sessions' = sessions
             ELSE LET new == IF u \in DOMAIN sess.userSongs
                             THEN [sess EXCEPT !.userSongs[u] = DelKey(@, slot)]
                             ELSE sess
                  IN /\ sessions' = [sessions EXCEPT ![sid] = new]
                     /\ out' = <<Broadcast(sid, new)>>
  /\ UNCHANGED <<variant, db, rooms, bound, task>>

M0ClearAll(s, sid) ==
  /\ variant = "mem0"
  /\ Arrive(s)
  /\ IF sid \notin DOMAIN sessions
     THEN out' = <<>> /\ sessions' = sessions
     ELSE LET new == [sessions[sid] EXCEPT
                        !.userSongs = [n \in DOMAIN @ |-> <<>>]]
          IN /\ sessions' = [sessions EXCEPT ![sid] = new]
             /\ out' = <<Broadcast(sid, new)>>
  /\ UNCHANGED <<variant, db, rooms, bound, task>>

\* ------------------------------------------------------------ p002: sqlite + in-memory sessions
NewSession == [owner |-> Null, users |-> <<>>, userSongs |-> <<>>]

\* the orders in which a SELECT without ORDER BY may return the names
Orderings(S) ==
  {q \in [1..Cardinality(S) -> S] : \A i, j \in 1..Cardinality(S) : i # j => q[i] # q[j]}

S2Create(s, sid) ==
  /\ variant = "p002"
  /\ Arrive(s)
  /\ IF sid = ""
     THEN /\ out' = <<Emit(s, "error", "Invalid session name.")>>
          /\ UNCHANGED <<db, sessions, rooms>>
     ELSE /\ db' = InsertSession(db, sid)
          /\ sessions' = IF sid \in DOMAIN sessions THEN sessions
                         ELSE SetKey(sessions, sid, NewSession)
          /\ rooms' = [rooms EXCEPT ![s] = @ \cup {sid}]
          /\ out' = <<Emit(s, "created", sid)>>
  /\ UNCHANGED <<variant, bound, task>>

S2Join(s, sid, u) ==
  /\ variant = "p002"
  /\ Arrive(s)
  /\ IF sid = "" \/ u = Null
     THEN /\ out' = <<Emit(s, "error", "Invalid session or username")>>
          /\ UNCHANGED <<db, task>>
     ELSE /\ db' = InsertSession(db, sid)
          /\ out' = <<>>
          /\ task' = [task EXCEPT ![s] = Task("join", "sel", sid, u, "", "")]
  /\ UNCHANGED <<variant, sessions, rooms, bound>>

\* db.all(SELECT username, slot, value ...) runs: the rows the callback will see
S2JoinSelect(s) ==
  /\ variant = "p002"
  /\ task[s].pc = "sel"
  /\ LET songs == RowsToSongs(db.picks, task[s].sid)
     IN \E order \in Orderings(DOMAIN songs) :
          task' = [task EXCEPT ![s].pc = "cb",
                               ![s].acc.userSongs = songs,
                               ![s].acc.users = order]
  /\ out' = <<>>
  /\ UNCHANGED <<variant, db, sessions, rooms, bound, nreq, nover, lim>>

\* the session object the join callback leaves
S2Joined(sess, rows, order, s, u) ==
  LET found == [i \in 1..Len(order) |-> [username |-> order[i], socketId |-> NoSocket]]
      i == FindByName(found, u)
  IN [owner |-> IF sess.owner = Null THEN u ELSE sess.owner,
      users |-> IF i # 0 THEN [found EXCEPT ![i].socketId = s]
                ELSE Append(found, [username |-> u, socketId |-> s]),
      userSongs |-> IF u \in DOMAIN rows THEN rows ELSE SetKey(rows, u, <<>>)]

S2JoinCallback(s) ==
  /\ variant = "p002"
  /\ task[s].op = "join"
  /\ task[s].pc = "cb"
  /\ LET sid == task[s].sid
         sess == IF sid \in DOMAIN sessions THEN sessions[sid] ELSE NewSession
         new == S2Joined(sess, task[s].acc.userSongs, task[s].acc.users, s, task[s].user)
     IN /\ sessions' = SetKey(sessions, sid, new)
        /\ rooms' = [rooms EXCEPT ![s] = @ \cup {sid}]
        /\ bound' = [bound EXCEPT ![s] = JoinedAs(@, task[s].user)]
        /\ out' = <<Emit(s, "joined", sid),
                    [type |-> "update-session", to |-> {o \in Sockets : sid \in rooms'[o]},
                     msg |-> sid, state |-> new]>>
  /\ task' = [task EXCEPT ![s] = Idle]
  /\ UNCHANGED <<variant, db, nreq, nover, lim>>

\* the caller's name: session.users.find(u => u.socketId === socket.id), Null if none
S2Caller(sess, s) ==
  LET i == FindBySocket(sess.users, s)
  IN IF i = 0 THEN Null ELSE sess.users[i].username

S2SetSong(s, sid, slot, value, u) ==
  /\ variant = "p002"
  /\ Arrive(s)
  /\ IF sid \notin DOMAIN sessions
     THEN out' = <<>> /\ task' = task
     ELSE LET caller == S2Caller(sessions[sid], s)
          IN IF caller = Null
             THEN out' = <<Emit(s, "error", "Not in session.")>> /\ task' = task
             ELSE IF caller # u
             THEN out' = <<Emit(s, "error", "You can only edit your own board.")>> /\ task' = task
             ELSE IF slot \notin SONG_SLOTS
             THEN out' = <<Emit(s, "error", "Invalid slot.")>> /\ task' = task
             ELSE /\ out' = <<>>
                  /\ task' = [task EXCEPT ![s] = Task("set-song", "exec", sid, u, slot, value)]
  /\ UNCHANGED <<variant, db, sessions, rooms, bound>>

S2DeleteSong(s, sid, slot, u) ==
  /\ variant = "p002"
  /\ Arrive(s)
  /\ IF sid \notin DOMAIN sessions
     THEN out' = <<>> /\ task' = task
     ELSE LET caller == S2Caller(sessions[sid], s)
          IN IF caller = Null
             THEN out' = <<Emit(s, "error", "Not in session.")>> /\ task' = task
             ELSE IF caller # sessions[sid].owner /\ caller # u
             THEN out' = <<Emit(s, "error", "You can only delete your own entry.")>> /\ task' = task
             ELSE /\ out' = <<>>
                  /\ task' = [task EXCEPT ![s] = Task("delete-song", "exec", sid, u, slot, "")]
  /\ UNCHANGED <<variant, db, sessions, rooms, bound>>

S2DeleteUserBoard(s, sid, target) ==
  /\ variant = "p002"
  /\ Arrive(s)
  /\ IF sid \notin DOMAIN sessions
     THEN out' = <<>> /\ task' = task
     ELSE LET caller == S2Caller(sessions[sid], s)
          IN IF caller = Null
             THEN out' = <<Emit(s, "error", "Not in session.")>> /\ task' = task
             ELSE IF caller # sessions[sid].owner
             THEN out' = <<Emit(s, "error", "Only the session owner can delete a user board.")>>
                  /\ task' = task
             ELSE /\ out' = <<>>
                  /\ task' = [task EXCEPT ![s] =
                                [Task("delete-user-board", "exec", sid, target, "", "")
                                   EXCEPT !.pre = <<TargetView(db, sessions, sid, target)>>]]
  /\ UNCHANGED <<variant, db, sessions, rooms, bound>>

S2ClearAll(s, sid) ==
  /\ variant = "p002"
  /\ Arrive(s)
  /\ IF sid \notin DOMAIN sessions
     THEN out' = <<>> /\ task' = task
     ELSE /\ out' = <<>>
          /\ task' = [task EXCEPT ![s] = Task("clear-all", "exec", sid, Null, "", "")]
  /\ UNCHANGED <<variant, db, sessions, rooms, bound>>

\* the statement of a set / delete / delete-board / clear request runs
S2Exec(s) ==
  /\ variant = "p002"
  /\ task[s].pc = "exec"
  /\ LET r == task[s]
     IN db' = CASE r.op = "set-song" -> UpsertRow(db, r.sid, r.user, r.slot, r.value)
                [] r.op = "delete-song" -> DeleteRows(db, {<<r.sid, r.user, r.slot>>})
                [] r.op = "delete-user-board" ->
                     DeleteRows(db, {k \in DOMAIN db.picks : k[1] = r.sid /\ k[2] = r.user})
                [] r.op = "clear-all" -> DeleteRows(db, {k \in DOMAIN db.picks : k[1] = r.sid})
  /\ task' = [task EXCEPT ![s].pc = "cb"]
  /\ out' = <<>>
  /\ UNCHANGED <<variant, sessions, rooms, bound, nreq, nover, lim>>

\* the session object after the statement's callback
S2Applied(sess, r) ==
  CASE r.op = "set-song" ->
         LET board == IF r.user \in DOMAIN sess.userSongs THEN sess.userSongs[r.user] ELSE <<>>
         IN [sess EXCEPT !.userSongs = SetKey(@, r.user, SetKey(board, r.slot, r.value))]
    [] r.op = "delete-song" ->
         IF r.user \in DOMAIN sess.userSongs
         THEN [sess EXCEPT !.userSongs[r.user] = DelKey(@, r.slot)]
         ELSE sess
    [] r.op = "delete-user-board" ->
         [sess EXCEPT !.userSongs = DelKey(@, r.user),
                      !.users = SelectSeq(@, LAMBDA x : x.username # r.user)]
    [] r.op = "clear-all" ->
         [sess EXCEPT !.userSongs = [n \in DOMAIN @ |-> <<>>]]

S2Callback(s) ==
  /\ variant = "p002"
  /\ task[s].op # "join"
  /\ task[s].pc = "cb"
  /\ LET new == S2Applied(sessions[task[s].sid], task[s])
     IN /\ sessions' = [sessions EXCEPT ![task[s].sid] = new]
        /\ out' = <<Broadcast(task[s].sid, new)>>
  /\ task' = [task EXCEPT ![s] = Idle]
  /\ UNCHANGED <<variant, db, rooms, bound, nreq, nover, lim>>

\* the statement fails: the callback gets err
S2QueryFails(s) ==
  /\ variant = "p002"
  /\ task[s].pc \in {"sel", "exec"}
  /\ out' = <<Emit(s, "error", "Database error")>>
  /\ task' = [task EXCEPT ![s] = Idle]
  /\ UNCHANGED <<variant, db, sessions, rooms, bound, nreq, nover, lim>>

\* ------------------------------------------------------------ storage backends
\* The storage functions behind `api`, called one at a time by one caller.
\* Here a slot name is a sequence holding one token (the whole name), so that
\* the in-memory backend's "user|slot" keys are built and split as the code
\* builds and splits them.

\* str.split(sep): the segments between the separators
RECURSIVE Split(_, _)
Split(str, sep) ==
  IF \A i \in 1..Len(str) : str[i] # sep THEN <<str>>
  ELSE LET i == CHOOSE i \in 1..Len(str) : str[i] = sep /\ \A j \in 1..(i - 1) : str[j] # sep
       IN <<SubSeq(str, 1, i - 1)>> \o Split(SubSeq(str, i + 1, Len(str)), sep)

\* str.startsWith(prefix)
StartsWith(str, prefix) ==
  Len(prefix) <= Len(str) /\ SubSeq(str, 1, Len(prefix)) = prefix

\* str.replaceAll(from, to), one character for another
ReplaceAll(str, from, to) ==
  [i \in 1..Len(str) |-> IF str[i] = from THEN to ELSE str[i]]

\* str.trim()
RECURSIVE Trim(_)
Trim(str) ==
  IF str = <<>> THEN str
  ELSE IF Head(str) = " " THEN Trim(Tail(str))
  ELSE IF str[Len(str)] = " " THEN Trim(SubSeq(str, 1, Len(str) - 1))
  ELSE str

\* Set.add / array of a Set: insertion order, no duplicates
SetAdd(seq, x) ==
  IF \E i \in 1..Len(seq) : seq[i] = x THEN seq ELSE Append(seq, x)

\* Map.set: an existing key keeps its place, a new one goes last
MapSet(pairs, k, v) ==
  IF \E i \in 1..Len(pairs) : pairs[i][1] = k
  THEN [i \in 1..Len(pairs) |-> IF pairs[i][1] = k THEN <<k, v>> ELSE pairs[i]]
  ELSE Append(pairs, <<k, v>>)

\* the entries of a Map that a deletion loop leaves: those whose key is not in gone
RECURSIVE MapRemove(_, _)
MapRemove(pairs, gone) ==
  IF pairs = <<>> THEN <<>>
  ELSE IF Head(pairs)[1] \in gone THEN MapRemove(Tail(pairs), gone)
  ELSE <<Head(pairs)>> \o MapRemove(Tail(pairs), gone)

\* localeCompare(.., 'en', {sensitivity: 'base'}): primary weight of a character
\* (space, then punctuation, then symbols, then letters; case ignored)
Collate(c) ==
  CASE c = " " -> 1
    [] c = "_" -> 2
    [] c = "/" -> 3
    [] c = "|" -> 4
    [] c \in {"a", "A"} -> 5
    [] c \in {"b", "B"} -> 6

\* a.localeCompare(b, 'en', {sensitivity: 'base'}) < 0
RECURSIVE BaseLess(_, _)
BaseLess(x, y) ==
  IF x = <<>> THEN y # <<>>
  ELSE IF y = <<>> THEN FALSE
  ELSE IF Collate(Head(x)) # Collate(Head(y)) THEN Collate(Head(x)) < Collate(Head(y))
  ELSE BaseLess(Tail(x), Tail(y))

\* Array.prototype.sort with that comparator: stable
RECURSIVE SortBase(_)
SortBase(seq) ==
  IF seq = <<>> THEN <<>>
  ELSE LET sorted == SortBase(SubSeq(seq, 1, Len(seq) - 1))
           x == seq[Len(seq)]
           n == Cardinality({i \in 1..Len(sorted) : ~BaseLess(x, sorted[i])})
       IN SubSeq(sorted, 1, n) \o <<x>> \o SubSeq(sorted, n + 1, Len(sorted))

\* users.map(u => ({ socketId: null, username: u }))
AsUsers(names) == [i \in 1..Len(names) |-> [socketId |-> NoSocket, username |-> names[i]]]

\* ---- in-memory fallback: mem.sessions, id -> { users: Set, picks: Map }
MemNew == [users |-> <<>>, picks |-> <<>>]

\* `${username}|${slot}`
MemKey(u, slot) == u \o <<"|">> \o slot

\* mem.sessions.set(id, {...}) without the has(id) test: an existing session
\* is replaced by an empty one
MemResetSession(m, id) == SetKey(m, id, MemNew)

MemEnsureSession(m, id) == IF id \in DOMAIN m THEN m ELSE SetKey(m, id, MemNew)

MemEnsureUser(m, id, u) ==
  LET m1 == MemEnsureSession(m, id)
  IN [m1 EXCEPT ![id].users = SetAdd(@, u)]

MemUpsertPick(m, id, u, slot, value) ==
  LET m1 == MemEnsureUser(m, id, u)
  IN [m1 EXCEPT ![id].picks = MapSet(@, MemKey(u, slot), value)]

\* a deletion by position, picks.splice(indexOf(key), 1): an absent key (index
\* -1) takes the last entry away
MemSplicePick(m, id, u, slot) ==
  IF id \notin DOMAIN m THEN m
  ELSE LET pairs == m[id].picks
           key == MemKey(u, slot)
       IN IF \E i \in 1..Len(pairs) : pairs[i][1] = key
          THEN [m EXCEPT ![id].picks = MapRemove(@, {key})]
          ELSE [m EXCEPT ![id].picks = SubSeq(@, 1, Len(@) - 1)]

MemDeletePick(m, id, u, slot) ==
  IF id \notin DOMAIN m THEN m
  ELSE [m EXCEPT ![id].picks = MapRemove(@, {MemKey(u, slot)})]

MemClearBoard(m, id, u) ==
  IF id \notin DOMAIN m THEN m
  ELSE [m EXCEPT ![id].picks =
          MapRemove(@, {@[i][1] : i \in {i \in 1..Len(@) : StartsWith(@[i][1], u \o <<"|">>)}})]

\* the loop over s.picks.entries(): const [u, slot] = key.split('|')
RECURSIVE MemSongs(_)
MemSongs(pairs) ==
  IF pairs = <<>> THEN <<>>
  ELSE LET songs == MemSongs(SubSeq(pairs, 1, Len(pairs) - 1))
           entry == pairs[Len(pairs)]
           parts == Split(entry[1], "|")
           u == parts[1]
           slot == parts[2]
       IN SetKey(songs, u,
                 SetKey(IF u \in DOMAIN songs THEN songs[u] ELSE <<>>, slot, entry[2]))

MemBuildState(m, id) ==
  LET s == IF id \in DOMAIN m THEN m[id] ELSE MemNew
  IN [owner |-> Null, users |-> AsUsers(SortBase(s.users)), userSongs |-> MemSongs(s.picks)]

\* ---- Firestore: sessions/{id}, sessions/{id}/users/{userKey},
\* sessions/{id}/boards/{userKey}; a document is keyed here by <<id, userKey>>
FsNew == [sess |-> {}, users |-> <<>>, boards |-> <<>>]

\* String(username || '').trim().replaceAll('/', '_')
userKey(username) == ReplaceAll(Trim(username), "/", "_")

FsEnsureSession(d, id) == [d EXCEPT !.sess = @ \cup {id}]

FsEnsureUser(d, id, u) ==
  LET d1 == FsEnsureSession(d, id)
  IN [d1 EXCEPT !.users = SetKey(@, <<id, userKey(u)>>, u)]

\* a board document: its username field (Null: no such field) and slot fields
FsBoard(d, k) == IF k \in DOMAIN d.boards THEN d.boards[k] ELSE [username |-> Null, fields |-> <<>>]

\* .set({ username, [slot]: value }, { merge: true })
FsUpsertPick(d, id, u, slot, value) ==
  LET d1 == FsEnsureUser(d, id, u)
      k == <<id, userKey(u)>>
  IN [d1 EXCEPT !.boards =
        SetKey(@, k, [username |-> u, fields |-> SetKey(FsBoard(d1, k).fields, slot, value)])]

\* .set({ [slot]: FieldValue.delete() }, { merge: true })
FsDeletePick(d, id, u, slot) ==
  LET k == <<id, userKey(u)>>
  IN [d EXCEPT !.boards =
        SetKey(@, k, [FsBoard(d, k) EXCEPT !.fields = DelKey(@, slot)])]

\* deletes every field of the board document but username
FsClearBoard(d, id, u) ==
  LET k == <<id, userKey(u)>>
  IN IF k \notin DOMAIN d.boards \/ d.boards[k].fields = <<>> THEN d
     ELSE [d EXCEPT !.boards[k].fields = <<>>]

\* b.username || doc.id
FsBoardName(d, k) == IF d.boards[k].username # Null THEN d.boards[k].username ELSE k[2]

\* usernames of the users documents, in document-id order
RECURSIVE FsUserNames(_, _)
FsUserNames(d, K) ==
  IF K = {} THEN <<>>
  ELSE LET k == CHOOSE k \in K : \A o \in K \ {k} : CLess(k[2], o[2])
       IN (IF d.users[k] # Null THEN <<d.users[k]>> ELSE <<>>) \o FsUserNames(d, K \ {k})

\* the board documents carry distinct names: a document without username is
\* named by its id, which is the userKey of that very name
FsBuildState(d, id) ==
  LET K == {k \in DOMAIN d.boards : k[1] = id}
  IN [owner |-> Null,
      users |-> AsUsers(SortBase(FsUserNames(d, {k \in DOMAIN d.users : k[1] = id}))),
      userSongs |-> [n \in {FsBoardName(d, k) : k \in K} |->
                       d.boards[CHOOSE k \in K : FsBoardName(d, k) = n].fields]]

\* ---- Postgres of src/unnamed/part_001: the tables of the other Postgres
\* revisions; session_users and user_picks reference sessions(id)
PgNew == [users |-> {}, picks |-> <<>>, sess |-> <<>>]

\* the foreign key on session_id holds for a new row
PgForeignKey(d, id) == id \in DOMAIN d.sess

pgEnsureSession(d, id) == InsertSession(d, id)

pgEnsureUser(d, id, u) == InsertUser(d, id, u)

pgUpsertPick(d, id, u, slot, value) == UpsertRow(d, id, u, slot, value)

pgDeletePick(d, id, u, slot) == DeleteRows(d, {<<id, u, slot>>})

pgClearBoard(d, id, u) ==
  DeleteRows(d, {k \in DOMAIN d.picks : k[1] = id /\ k[2] = u})

pgBuildState(d, id) ==
  [owner |-> Null,
   users |-> AsUsers(SortC({p[2] : p \in {p \in d.users : p[1] = id}})),
   userSongs |-> RowsToSongs(d.picks, id)]

\* ---- `api`: the backend chosen at boot
Backends == {"mem", "fs", "pgs"}

\* the backend behind `api`: of the storage functions taken alone, or of the
\* Firestore revision's server with Firestore disabled ("srv-mem") or enabled
Backend ==
  CASE variant \in Backends -> variant
    [] variant = "srv-mem" -> "mem"
    [] variant = "srv-fs" -> "fs"

StoreNew == CASE Backend = "mem" -> <<>> [] Backend = "fs" -> FsNew [] Backend = "pgs" -> PgNew

ApiEnsureSession(d, id) ==
  CASE Backend = "mem" -> MemEnsureSession(d, id)
    [] Backend = "fs" -> FsEnsureSession(d, id)
    [] Backend = "pgs" -> pgEnsureSession(d, id)

ApiEnsureUser(d, id, u) ==
  CASE Backend = "mem" -> MemEnsureUser(d, id, u)
    [] Backend = "fs" -> FsEnsureUser(d, id, u)
    [] Backend = "pgs" -> pgEnsureUser(d, id, u)

ApiUpsertPick(d, id, u, slot, value) ==
  CASE Backend = "mem" -> MemUpsertPick(d, id, u, slot, value)
    [] Backend = "fs" -> FsUpsertPick(d, id, u, slot, value)
    [] Backend = "pgs" -> pgUpsertPick(d, id, u, slot, value)

ApiDeletePick(d, id, u, slot) ==
  CASE Backend = "mem" -> MemDeletePick(d, id, u, slot)
    [] Backend = "fs" -> FsDeletePick(d, id, u, slot)
    [] Backend = "pgs" -> pgDeletePick(d, id, u, slot)

ApiClearBoard(d, id, u) ==
  CASE Backend = "mem" -> MemClearBoard(d, id, u)
    [] Backend = "fs" -> FsClearBoard(d, id, u)
    [] Backend = "pgs" -> pgClearBoard(d, id, u)

ApiBuildState(d, id) ==
  CASE Backend = "mem" -> MemBuildState(d, id)
    [] Backend = "fs" -> FsBuildState(d, id)
    [] Backend = "pgs" -> pgBuildState(d, id)

\* an insert into session_users or user_picks is refused: no such session row
ApiThrows(d, id) == Backend = "pgs" /\ ~PgForeignKey(d, id)

\* the record of a storage call and whether it returned normally
Call(op, id, u, slot, value, ok) ==
  [op |-> op, sid |-> id, user |-> u, slot |-> slot, value |-> value, ok |-> ok]

\* one storage call: it leaves the contents d and the record c
StoreStep(c, d) ==
  /\ variant \in Backends
  /\ nreq < lim.req
  /\ nreq' = nreq + 1
  /\ db' = d
  /\ out' = <<c>>
  /\ UNCHANGED <<variant, sessions, rooms, bound, task, nover, lim>>

EnsureSession(id) ==
  StoreStep(Call("ensureSession", id, Null, Null, "", TRUE), ApiEnsureSession(db, id))

EnsureUser(id, u) ==
  IF ApiThrows(db, id)
  THEN StoreStep(Call("ensureUser", id, u, Null, "", FALSE), db)
  ELSE StoreStep(Call("ensureUser", id, u, Null, "", TRUE), ApiEnsureUser(db, id, u))

UpsertPick(id, u, slot, value) ==
  IF ApiThrows(db, id)
  THEN StoreStep(Call("upsertPick", id, u, slot, value, FALSE), db)
  ELSE StoreStep(Call("upsertPick", id, u, slot, value, TRUE),
                 ApiUpsertPick(db, id, u, slot, value))

DeletePick(id, u, slot) ==
  StoreStep(Call("deletePick", id, u, slot, "", TRUE), ApiDeletePick(db, id, u, slot))

ClearBoard(id, u) ==
  StoreStep(Call("clearBoard", id, u, Null, "", TRUE), ApiClearBoard(db, id, u))

\* the names, slots and values the storage calls are given
MaxStoreCalls == 3
StoreNames == {<<"a">>, <<"B">>, <<"a", "|", "b">>, <<"a", "/", "b">>, <<"a", "_", "b">>}
StoreSlots == {<<"Opener">>, <<"Song 2">>}
StoreValues == {"", "X", "Y"}

NextStore ==
  \E id \in SessionIds, u \in StoreNames, slot \in StoreSlots, value \in StoreValues :
    \/ EnsureSession(id)
    \/ EnsureUser(id, u)
    \/ UpsertPick(id, u, slot, value)
    \/ DeletePick(id, u, slot)
    \/ ClearBoard(id, u)

InitStore ==
  /\ variant \in Backends
  /\ db = StoreNew
  /\ sessions = <<>>
  /\ rooms = [s \in Sockets |-> {}]
  /\ bound = [s \in Sockets |-> [last |-> Null, all |-> {}]]
  /\ task = [s \in Sockets |-> Idle]
  /\ out = <<>>
  /\ nreq = 0
  /\ nover = 0
  /\ lim = [req |-> MaxStoreCalls, over |-> 0, sids |-> SessionIds]

SpecStore == InitStore /\ [][NextStore]_vars

\* ---- the same calls given to both backends of one server: `db` holds the
\* in-memory backend's contents, `sessions` those of the durable backend that
\* `variant` names ("fs" in server.js, "pgs" in part_001)
Durable == {"fs", "pgs"}

MaxPairCalls == 3

\* one call made on both: m and d are the contents it leaves, c its record
PairStep(c, m, d) ==
  /\ variant \in Durable
  /\ nreq < lim.req
  /\ nreq' = nreq + 1
  /\ db' = m
  /\ sessions' = d
  /\ out' = <<c>>
  /\ UNCHANGED <<variant, rooms, bound, task, nover, lim>>

PairEnsureSession(id) ==
  PairStep(Call("ensureSession", id, Null, Null, "", TRUE),
           MemEnsureSession(db, id), ApiEnsureSession(sessions, id))

PairEnsureUser(id, u) ==
  PairStep(Call("ensureUser", id, u, Null, "", ~ApiThrows(sessions, id)),
           MemEnsureUser(db, id, u),
           IF ApiThrows(sessions, id) THEN sessions ELSE ApiEnsureUser(sessions, id, u))

PairUpsertPick(id, u, slot, value) ==
  PairStep(Call("upsertPick", id, u, slot, value, ~ApiThrows(sessions, id)),
           MemUpsertPick(db, id, u, slot, value),
           IF ApiThrows(sessions, id) THEN sessions
           ELSE ApiUpsertPick(sessions, id, u, slot, value))

PairDeletePick(id, u, slot) ==
  PairStep(Call("deletePick", id, u, slot, "", TRUE),
           MemDeletePick(db, id, u, slot), ApiDeletePick(sessions, id, u, slot))

PairClearBoard(id, u) ==
  PairStep(Call("clearBoard", id, u, Null, "", TRUE),
           MemClearBoard(db, id, u), ApiClearBoard(sessions, id, u))

NextPair ==
  \E id \in SessionIds, u \in StoreNames, slot \in StoreSlots, value \in StoreValues :
    \/ PairEnsureSession(id)
    \/ PairEnsureUser(id, u)
    \/ PairUpsertPick(id, u, slot, value)
    \/ PairDeletePick(id, u, slot)
    \/ PairClearBoard(id, u)

InitPair ==
  /\ variant \in Durable
  /\ db = <<>>
  /\ sessions = StoreNew
  /\ rooms = [s \in Sockets |-> {}]
  /\ bound = [s \in Sockets |-> [last |-> Null, all |-> {}]]
  /\ task = [s \in Sockets |-> Idle]
  /\ out = <<>>
  /\ nreq = 0
  /\ nover = 0
  /\ lim = [req |-> MaxPairCalls, over |-> 0, sids |-> SessionIds]

SpecPair == InitPair /\ [][NextPair]_vars

\* ------------------------------------------------------------ srv: the socketMap revision
\* server.js:423-533: the handlers over `api`, the caller's identity taken from
\* socketMap; `sessions` holds socketMap (socket.id -> { sessionId, username })
SrvVariants == {"srv-mem", "srv-fs"}

socketMap == sessions

\* the slot catalog of this revision
SRV_SONG_SLOTS == SONG_SLOTS \cup {"Song 6"}

\* api.buildState(id), its slot names as the handlers' clients write them
SrvBuildState(d, id) ==
  LET st == ApiBuildState(d, id)
  IN [st EXCEPT !.userSongs =
        [u \in DOMAIN @ |-> [sl \in {k[1] : k \in DOMAIN @[u]} |-> @[u][<<sl>>]]]]

\* a request arrives; the in-memory api never yields to another socket's event
SrvArrive(s) ==
  /\ variant \in SrvVariants
  /\ Arrive(s)
  /\ variant = "srv-mem" => \A o \in Sockets : task[o].pc = ""

SrvJoin(s, sid, u) ==
  /\ SrvArrive(s)
  /\ IF sid = "" \/ Trim(u) = Null
     THEN /\ out' = <<Emit(s, "error", "Invalid session or username")>>
          /\ task' = task
     ELSE /\ out' = <<>>
          /\ task' = [task EXCEPT ![s] = Task("join", "ensS", sid, Trim(u), "", "")]
  /\ UNCHANGED <<variant, db, sessions, rooms, bound>>

\* a handler that trusts the payload: decodeURIComponent(sessionId) || who.sessionId
SrvPayloadId(who, sid) == IF sid # "" THEN sid ELSE who.sessionId

\* const cleanId = who.sessionId || decodeURIComponent(String(sessionId || '')).trim()
\* for the payload's sessionId sid
SrvCleanId(who, sid) == IF who.sessionId # "" THEN who.sessionId ELSE sid

\* who = socketMap.get(socket.id); the payload's username is not read
SrvSetSong(s, sid, slot, value) ==
  /\ SrvArrive(s)
  /\ IF s \notin DOMAIN socketMap
     THEN out' = <<Emit(s, "error", "Not joined.")>> /\ task' = task
     ELSE IF slot \notin SRV_SONG_SLOTS
     THEN out' = <<Emit(s, "error", "Invalid slot")>> /\ task' = task
     ELSE /\ out' = <<>>
          /\ task' = [task EXCEPT ![s] = Task("set-song", "mut", SrvCleanId(socketMap[s], sid),
                                               socketMap[s].username, slot, value)]
  /\ UNCHANGED <<variant, db, sessions, rooms, bound>>

SrvDeleteSong(s, sid, slot) ==
  /\ SrvArrive(s)
  /\ IF s \notin DOMAIN socketMap
     THEN out' = <<Emit(s, "error", "Not joined.")>> /\ task' = task
     ELSE /\ out' = <<>>
          /\ task' = [task EXCEPT ![s] = Task("delete-song", "mut", SrvCleanId(socketMap[s], sid),
                                               socketMap[s].username, slot, "")]
  /\ UNCHANGED <<variant, db, sessions, rooms, bound>>

SrvClearAll(s, sid) ==
  /\ SrvArrive(s)
  /\ IF s \notin DOMAIN socketMap
     THEN out' = <<Emit(s, "error", "Not joined.")>> /\ task' = task
     ELSE /\ out' = <<>>
          /\ task' = [task EXCEPT ![s] = Task("clear-all", "mut", SrvCleanId(socketMap[s], sid),
                                               socketMap[s].username, "", "")]
  /\ UNCHANGED <<variant, db, sessions, rooms, bound>>

SrvDeleteUserBoard(s) ==
  /\ SrvArrive(s)
  /\ out' = <<Emit(s, "error", "This action is disabled.")>>
  /\ UNCHANGED <<variant, db, sessions, rooms, bound, task>>

\* await api.ensureSession(cleanId)
SrvEnsureSession(s) ==
  /\ variant \in SrvVariants
  /\ task[s].pc = "ensS"
  /\ db' = ApiEnsureSession(db, task[s].sid)
  /\ task' = [task EXCEPT ![s].pc = "ensU"]
  /\ out' = <<>>
  /\ UNCHANGED <<variant, sessions, rooms, bound, nreq, nover, lim>>

\* await api.ensureUser(..); socket.join; socketMap.set; socket.emit('joined')
SrvEnsureUser(s) ==
  /\ variant \in SrvVariants
  /\ task[s].pc = "ensU"
  /\ db' = ApiEnsureUser(db, task[s].sid, task[s].user)
  /\ rooms' = [rooms EXCEPT ![s] = @ \cup {task[s].sid}]
  /\ sessions' = SetKey(socketMap, s, [sessionId |-> task[s].sid, username |-> task[s].user])
  /\ bound' = [bound EXCEPT ![s] = JoinedAs(@, task[s].user)]
  /\ out' = <<Emit(s, "joined", task[s].sid)>>
  /\ task' = [task EXCEPT ![s].pc = "read"]
  /\ UNCHANGED <<variant, nreq, nover, lim>>

\* the handler's one write: deletePick for an empty value, upsertPick
\* otherwise; deletePick; clearBoard of the caller's board
SrvWrite(s) ==
  /\ variant \in SrvVariants
  /\ task[s].pc = "mut"
  /\ LET r == task[s]
     IN db' = CASE r.op = "set-song" /\ r.value = "" ->
                     ApiDeletePick(db, r.sid, r.user, <<r.slot>>)
                [] r.op = "set-song" /\ r.value # "" ->
                     ApiUpsertPick(db, r.sid, r.user, <<r.slot>>, r.value)
                [] r.op = "delete-song" -> ApiDeletePick(db, r.sid, r.user, <<r.slot>>)
                [] r.op = "clear-all" -> ApiClearBoard(db, r.sid, r.user)
  /\ task' = [task EXCEPT ![s].pc = "read"]
  /\ out' = <<>>
  /\ UNCHANGED <<variant, sessions, rooms, bound, nreq, nover, lim>>

\* const state = await api.buildState(cleanId); io.to(cleanId).emit(..)
SrvRead(s) ==
  /\ variant \in SrvVariants
  /\ task[s].pc = "read"
  /\ out' = <<Broadcast(task[s].sid, SrvBuildState(db, task[s].sid))>>
  /\ task' = [task EXCEPT ![s] = Idle]
  /\ UNCHANGED <<variant, db, sessions, rooms, bound, nreq, nover, lim>>

\* a Firestore call rejects: the handler's catch block
SrvApiFails(s) ==
  /\ variant = "srv-fs"
  /\ task[s].pc \in {"ensS", "ensU", "mut", "read"}
  /\ out' = <<Emit(s, "error", PgErrorMsg(task[s].op))>>
  /\ task' = [task EXCEPT ![s] = Idle]
  /\ UNCHANGED <<variant, db, sessions, rooms, bound, nreq, nover, lim>>

\* ------------------------------------------------------------ specification
Start ==
  /\ variant \in Variants \cup SrvVariants
  /\ \E preset \in SUBSET SessionIds :
       /\ preset # {} => variant = "p002"
       /\ db = IF variant \in SrvVariants THEN StoreNew
               ELSE [sess |-> [i \in preset |-> Null], users |-> {}, picks |-> <<>>]
       /\ sessions = [i \in preset |-> NewSession]
  /\ rooms = [s \in Sockets |-> {}]
  /\ bound = [s \in Sockets |-> [last |-> Null, all |-> {}]]
  /\ task = [s \in Sockets |-> Idle]
  /\ out = <<>>
  /\ nreq = 0
  /\ nover = 0

SidInputs == lim.sids \cup {""}
NameInputs == Names \cup {Null}

Next ==
  \E s \in Sockets :
    \/ \E sid \in SidInputs : M0Create(s, sid)
    \/ \E sid \in SidInputs, u \in NameInputs : M0Join(s, sid, u)
    \/ \E sid \in lim.sids, sl \in SlotInputs, v \in ValueInputs, u \in Names :
         M0SetSong(s, sid, sl, v, u)
    \/ \E sid \in lim.sids, sl \in SlotInputs, u \in Names : M0ClearSlot(s, sid, sl, u)
    \/ \E sid \in lim.sids : M0ClearAll(s, sid)
    \/ \E sid \in SidInputs : S2Create(s, sid)
    \/ \E sid \in SidInputs, u \in NameInputs : S2Join(s, sid, u)
    \/ \E sid \in lim.sids, sl \in SlotInputs, v \in ValueInputs, u \in Names :
         S2SetSong(s, sid, sl, v, u)
    \/ \E sid \in lim.sids, sl \in SlotInputs, u \in Names : S2DeleteSong(s, sid, sl, u)
    \/ \E sid \in lim.sids, u \in Names : S2DeleteUserBoard(s, sid, u)
    \/ \E sid \in lim.sids : S2ClearAll(s, sid)
    \/ S2JoinSelect(s)
    \/ S2JoinCallback(s)
    \/ S2Exec(s)
    \/ S2Callback(s)
    \/ S2QueryFails(s)
    \/ \E sid \in SidInputs, u \in NameInputs : PgJoin(s, sid, u)
    \/ \E sid \in lim.sids, sl \in SlotInputs, v \in ValueInputs, u \in Names :
         PgSetSong(s, sid, sl, v, u)
    \/ \E sid \in lim.sids, sl \in SlotInputs, u \in Names : PgDeleteSong(s, sid, sl, u)
    \/ \E sid \in lim.sids, u \in Names : PgDeleteUserBoard(s, sid, u)
    \/ \E sid \in lim.sids : PgClearAll(s, sid)
    \/ PgEnsureSessionInsert(s)
    \/ PgEnsureSessionOwner(s)
    \/ PgEnsureUser(s)
    \/ PgUpsertPick(s)
    \/ PgDeletePick(s)
    \/ PgDeleteBoardPicks(s)
    \/ PgDeleteBoardUser(s)
    \/ PgClearPicks(s)
    \/ PgReadOwner(s)
    \/ PgReadUsers(s)
    \/ PgReadPicks(s)
    \/ PgQueryFails(s)

\* requests handled one after the other
    \/ \E sid \in SidInputs, u \in NameInputs : SrvJoin(s, sid, u)
    \/ \E sid \in SidInputs, sl \in SlotInputs, v \in ValueInputs : SrvSetSong(s, sid, sl, v)
    \/ \E sid \in SidInputs, sl \in SlotInputs : SrvDeleteSong(s, sid, sl)
    \/ \E sid \in SidInputs : SrvClearAll(s, sid)
    \/ SrvDeleteUserBoard(s)
    \/ SrvEnsureSession(s)
    \/ SrvEnsureUser(s)
    \/ SrvWrite(s)
    \/ SrvRead(s)
    \/ SrvApiFails(s)

Init == Start /\ lim = [req |-> MaxRequests, over |-> 0, sids |-> SessionIds]

\* a shorter run in which requests may overlap
InitConc == Start /\ lim = [req |-> MaxConcRequests, over |-> MaxOverlaps, sids |-> SessionIds]

Spec == Init /\ [][Next]_vars

SpecConc == InitConc /\ [][Next]_vars

\* ------------------------------------------------------------ connections' lives
\* a socket that has disconnected: no event arrives on it any more
Gone == [Idle EXCEPT !.op = "gone"]

\* a 'disconnect' handler that forgets the participant: the session's user
\* entries of this socket and their boards are dropped
DisconnectAndLeave(s) ==
  /\ task[s] = Idle
  /\ rooms' = [rooms EXCEPT ![s] = {}]
  /\ sessions' = IF variant \in SrvVariants THEN DelKey(socketMap, s)
                 ELSE [sid \in DOMAIN sessions |->
                         LET left == {sessions[sid].users[i].username :
                                        i \in {i \in 1..Len(sessions[sid].users) :
                                                 sessions[sid].users[i].socketId = s}}
                         IN [sessions[sid] EXCEPT
                               !.users = SelectSeq(@, LAMBDA x : x.socketId # s),
                               !.userSongs = [u \in DOMAIN @ \ left |-> @[u]]]]
  /\ db' = IF variant \in SrvVariants \/ bound[s].all = {} THEN db
           ELSE IF variant \in PgVariants
           THEN [db EXCEPT !.users = {p \in @ : p[2] \notin bound[s].all}]
           ELSE db
  /\ task' = [task EXCEPT ![s] = Gone]
  /\ out' = <<>>
  /\ UNCHANGED <<variant, bound, nreq, nover, lim>>

\* the connection of socket s closes (between two of its requests): socket.io
\* takes it out of its rooms and runs the 'disconnect' handler, which is empty
\* but for socketMap.delete(socket.id) in the socketMap revision
Disconnect(s) ==
  /\ task[s] = Idle
  /\ rooms' = [rooms EXCEPT ![s] = {}]
  /\ sessions' = IF variant \in SrvVariants THEN DelKey(socketMap, s) ELSE sessions
  /\ task' = [task EXCEPT ![s] = Gone]
  /\ out' = <<>>
  /\ UNCHANGED <<variant, db, bound, nreq, nover, lim>>

\* runs with disconnections, and with joins under a name of blanks
MaxLifeRequests == 3
BlankNames == {<<" ">>}

NextLife ==
  \/ Next
  \/ \E s \in Sockets : Disconnect(s)
  \/ \E s \in Sockets, sid \in SidInputs, u \in BlankNames :
       M0Join(s, sid, u) \/ S2Join(s, sid, u) \/ PgJoin(s, sid, u) \/ SrvJoin(s, sid, u)

InitLife == Start /\ lim = [req |-> MaxLifeRequests, over |-> 0, sids |-> SessionIds]

SpecLife == InitLife /\ [][NextLife]_vars

\* runs whose requests name either of two sessions
MaxIsoRequests == 3
IsoSessionIds == {"s1", "s2"}

InitIso == Start /\ lim = [req |-> MaxIsoRequests, over |-> 0, sids |-> IsoSessionIds]

SpecIso == InitIso /\ [][Next]_vars

\* ------------------------------------------------------------ observations
\* the messages of the handlers' caller checks
AuthErrors ==
  {"Not in session.", "You can only edit your own board.",
   "You can only delete your own entry.",
   "Only the session owner can delete a user board.",
   "You cannot clear another user's picks."}

\* the names of a snapshot's participants
SnapNames(st) == {st.users[i].username : i \in 1..Len(st.users)}

\* the session's owner as the running revision keeps it (Null: none)
Owner(sid) ==
  IF variant \in SrvVariants THEN Null
  ELSE IF variant \in PgVariants
  THEN IF sid \in DOMAIN db.sess THEN db.sess[sid] ELSE Null
  ELSE IF variant = "p002" /\ sid \in DOMAIN sessions THEN sessions[sid].owner
  ELSE Null

\* the session's participants
Participants(sid) ==
  IF variant \in SrvVariants THEN SnapNames(ApiBuildState(db, sid))
  ELSE IF variant \in PgVariants THEN {p[2] : p \in {p \in db.users : p[1] = sid}}
  ELSE IF sid \in DOMAIN sessions
  THEN {sessions[sid].users[i].username : i \in 1..Len(sessions[sid].users)}
  ELSE {}

\* the session's boards: the durable picks, and the in-process boards where kept
Boards(sid) ==
  IF variant \in SrvVariants THEN <<SrvBuildState(db, sid).userSongs>>
  ELSE IF variant \in PgVariants THEN <<RowsToSongs(db.picks, sid)>>
  ELSE IF variant = "p002"
  THEN <<RowsToSongs(db.picks, sid),
         IF sid \in DOMAIN sessions THEN sessions[sid].userSongs ELSE <<>>>>
  ELSE <<IF sid \in DOMAIN sessions THEN sessions[sid].userSongs ELSE <<>>>>

\* participant u's board in each of them
BoardOf(sid, u) ==
  [i \in DOMAIN Boards(sid) |->
     IF u \in DOMAIN Boards(sid)[i] THEN Boards(sid)[i][u] ELSE <<>>]

\* this step emits a snapshot
Broadcasts == \E i \in 1..Len(out') : out'[i].type = "update-session"

\* this step ends with a caller-check error sent to socket s and nothing else
AuthRejected(s) ==
  /\ Len(out') = 1
  /\ out'[1].type = "error"
  /\ out'[1].to = {s}
  /\ out'[1].msg \in AuthErrors

\* socket s joined as A and as nobody else, and no other socket joined as A
CallerIs(s, A) ==
  /\ bound[s].all = {A}
  /\ \A o \in Sockets \ {s} : A \notin bound[o].all

\* a set-song request arrives on socket s
SetSongArrives(s, sid, sl, v, u) ==
  PgSetSong(s, sid, sl, v, u) \/ M0SetSong(s, sid, sl, v, u) \/ S2SetSong(s, sid, sl, v, u)

\* a storage call of socket s's handler fails
StorageFails(s) == PgQueryFails(s) \/ S2QueryFails(s) \/ SrvApiFails(s)

\* a step of socket s's handler after the request arrived, storage failures aside
StepOf(s, op) == task[s].op = op /\ task'[s] # task[s] /\ ~StorageFails(s)

\* ------------------------------------------------------------ claims
\* C1: a set-slot request by a connection that joined as A, naming another
\* participant B (catalog slot), changes neither the session's participants,
\* boards nor owner, broadcasts no snapshot, and (unless a storage call fails)
\* ends with an authorization error sent to the requester only.
C1_SetOthersBoardRejected ==
  [][\A s \in Sockets, A \in Names :
       /\ \A sid \in SessionIds, sl \in SlotInputs \cap SONG_SLOTS, v \in ValueInputs,
             u \in Names \ {A} :
            (CallerIs(s, A) /\ SetSongArrives(s, sid, sl, v, u))
              => /\ UNCHANGED <<db, sessions>>
                 /\ ~Broadcasts
                 /\ task'[s] = Idle => AuthRejected(s)
       /\ (CallerIs(s, A) /\ StepOf(s, "set-song") /\ task[s].user # A)
            => /\ UNCHANGED <<db, sessions>>
               /\ ~Broadcasts
               /\ task'[s] = Idle => AuthRejected(s)
    ]_vars
\* the step that commits a join's owner assignment
AssignsOwner(s) == PgEnsureSessionOwner(s) \/ S2JoinCallback(s)

\* the last step of a join handler that succeeded: it broadcasts the snapshot
JoinSucceeds(s) ==
  /\ task[s].op = "join"
  /\ task'[s] = Idle
  /\ out' # <<>>
  /\ out'[Len(out')].type = "update-session"

\* every request so far was a join on a socket of its own that succeeded or is
\* still running
OnlyJoins ==
  nreq = Cardinality({o \in Sockets : task[o].op = "join" \/ bound[o].all # {}})

JoinCompletes(s, sid, u) ==
  \/ task[s].sid = sid /\ task[s].user = u /\ JoinSucceeds(s)
  \/ M0Join(s, sid, u) /\ Broadcasts

\* the snapshot this step broadcasts
Snapshot == out'[Len(out')].state

\* the participant names of a snapshot, in its order
SnapOrder(st) == [i \in 1..Len(st.users) |-> st.users[i].username]

\* C3: the first successful join, by u, on a session with no prior state makes
\* u the owner, and its snapshot is exactly owner u, participants [u] and
\* boards {u: {}}.
C3_FirstJoinSnapshot ==
  [][\A s \in Sockets, sid \in SessionIds, u \in Names :
       (variant \in PgVariants \cup {"p002"} /\ nreq = 1 /\ JoinCompletes(s, sid, u))
         => /\ Owner(sid)' = u
            /\ Snapshot.owner = u
            /\ SnapOrder(Snapshot) = <<u>>
            /\ Snapshot.userSongs = [x \in {u} |-> <<>>]
    ]_vars

\* C4: when u2 joins, as the second request, a session whose first request was
\* u1's join on another socket, the snapshot of u2's join lists exactly u1 and
\* u2 and names u1 as owner.
C4_SecondJoinSnapshot ==
  [][\A s \in Sockets, o \in Sockets, sid \in SessionIds, u1 \in Names, u2 \in Names :
       (/\ s # o
        /\ u1 # u2
        /\ nreq' = 2
        /\ bound[o].all = {u1}
        /\ JoinCompletes(s, sid, u2))
         => /\ SnapNames(Snapshot) = {u1, u2}
            /\ "owner" \in DOMAIN Snapshot
            /\ Snapshot.owner = u1
    ]_vars

\* a delete-user-board request arrives on socket s
DeleteBoardArrives(s, sid, t) ==
  PgDeleteUserBoard(s, sid, t) \/ S2DeleteUserBoard(s, sid, t)

\* a delete-song request arrives on socket s
DeleteSongArrives(s, sid, sl, t) ==
  PgDeleteSong(s, sid, sl, t) \/ S2DeleteSong(s, sid, sl, t)

\* C5: a delete-user-board request by a connection that joined as A, A not
\* the session's owner, changes neither membership nor picks, broadcasts no
\* snapshot, and (unless a storage call fails) ends with an authorization
\* error sent to the requester only.
C5_DeleteBoardByNonOwnerRejected ==
  [][\A s \in Sockets, A \in Names, sid \in SessionIds :
       (CallerIs(s, A) /\ Owner(sid) # Null /\ Owner(sid) # A)
         => /\ \A t \in Names :
                 DeleteBoardArrives(s, sid, t)
                   => /\ UNCHANGED <<db, sessions>>
                      /\ ~Broadcasts
                      /\ task'[s] = Idle => AuthRejected(s)
            /\ (StepOf(s, "delete-user-board") /\ task[s].sid = sid)
                 => /\ UNCHANGED <<db, sessions>>
                    /\ ~Broadcasts
                    /\ task'[s] = Idle => AuthRejected(s)
    ]_vars

\* C6: after A joined first (and owns the session) and B joined on another
\* connection, a delete-user-board request for B on A's connection is
\* accepted, and (unless a storage call fails) ends with a snapshot in which
\* B is neither a participant nor a board key.
C6_DeleteBoardByOwnerSucceeds ==
  [][\A s \in Sockets, o \in Sockets, A \in Names, B \in Names, sid \in SessionIds :
       (/\ variant \in PgVariants \cup {"p002"}
        /\ s # o
        /\ A # B
        /\ CallerIs(s, A)
        /\ CallerIs(o, B)
        /\ Owner(sid) = A)
         => /\ (nreq = 2 /\ DeleteBoardArrives(s, sid, B)) => task'[s] # Idle
            /\ (/\ nreq = 3
                /\ StepOf(s, "delete-user-board")
                /\ task[s].sid = sid
                /\ task[s].user = B
                /\ task'[s] = Idle)
                 => /\ Broadcasts
                    /\ B \notin SnapNames(Snapshot)
                    /\ B \notin DOMAIN Snapshot.userSongs
    ]_vars

\* C7: a delete-song request for (t, slot) by a connection that joined as A,
\* A still a participant, is accepted when A is t or the session's owner, and
\* then (unless a storage call fails) ends with a snapshot without that pick; for any other A it
\* changes nothing, broadcasts nothing and ends with an authorization error
\* sent to the requester only.
C7_DeleteSongAuthorized ==
  [][\A s \in Sockets, A \in Names, t \in Names, sid \in SessionIds :
       (/\ variant \in PgVariants \cup {"p002"}
        /\ CallerIs(s, A)
        /\ A \in Participants(sid)
        /\ Owner(sid) # Null)
         => IF A = t \/ A = Owner(sid)
            THEN /\ \A sl \in SlotInputs :
                      DeleteSongArrives(s, sid, sl, t) => task'[s] # Idle
                 /\ (/\ StepOf(s, "delete-song")
                     /\ task[s].sid = sid
                     /\ task[s].user = t
                     /\ task'[s] = Idle)
                      => /\ Broadcasts
                         /\ t \in DOMAIN Snapshot.userSongs
                              => task[s].slot \notin DOMAIN Snapshot.userSongs[t]
            ELSE /\ \A sl \in SlotInputs :
                      DeleteSongArrives(s, sid, sl, t)
                        => /\ UNCHANGED <<db, sessions>>
                           /\ ~Broadcasts
                           /\ task'[s] = Idle => AuthRejected(s)
                 /\ (StepOf(s, "delete-song") /\ task[s].sid = sid /\ task[s].user = t)
                      => /\ UNCHANGED <<db, sessions>>
                         /\ ~Broadcasts
                         /\ task'[s] = Idle => AuthRejected(s)
    ]_vars

\* the boards of every snapshot this state's events carry
SnapshotBoards ==
  {out[i].state.userSongs : i \in {i \in 1..Len(out) : out[i].type = "update-session"}}

\* the boards of the session state and of the snapshots just broadcast
AllBoards ==
  UNION {{Boards(sid)[i] : i \in DOMAIN Boards(sid)} : sid \in SessionIds}
    \cup SnapshotBoards

\* C8: every slot key of every board, stored or broadcast, is a slot of the
\* catalog SONG_SLOTS.
C8_BoardKeysInCatalog ==
  \A b \in AllBoards : \A u \in DOMAIN b : DOMAIN b[u] \subseteq SONG_SLOTS

\* C9: no board, stored or broadcast, maps a slot to the empty string.
C9_NoEmptyValues ==
  \A b \in AllBoards : \A u \in DOMAIN b : \A sl \in DOMAIN b[u] : b[u][sl] # ""

\* participant u's board in a snapshot's boards (none: the empty board)
BoardIn(songs, u) == IF u \in DOMAIN songs THEN songs[u] ELSE <<>>

\* C10: after upsertPick(s, u, slot, X), X not empty, returned normally,
\* readState shows boards[u][slot] = X, and u's other slots are what readState
\* showed before the call.
C10_UpsertRoundTrip ==
  [][\A id \in SessionIds, u \in StoreNames, slot \in StoreSlots,
        X \in StoreValues \ {""} :
       (UpsertPick(id, u, slot, X) /\ out'[1].ok)
         => LET before == BoardIn(ApiBuildState(db, id).userSongs, u)
                after == BoardIn(ApiBuildState(db', id).userSongs, u)
            IN /\ slot \in DOMAIN after
               /\ after[slot] = X
               /\ DOMAIN after \ {slot} = DOMAIN before \ {slot}
               /\ \A o \in DOMAIN after \ {slot} : after[o] = before[o]
    ]_vars

\* a set-song request for (sid, u, sl) with value v ends in this step with no
\* storage failure
SetSongCompletes(s, sid, u, sl, v) ==
  \/ /\ StepOf(s, "set-song")
     /\ task[s].sid = sid /\ task[s].user = u /\ task[s].slot = sl /\ task[s].value = v
     /\ task'[s] = Idle
  \/ M0SetSong(s, sid, sl, v, u) /\ sid \in DOMAIN sessions

\* C11: a set-song request with an empty value, by a connection that joined as
\* u, for a catalog slot of u's own board, ends with no error and with a
\* snapshot whose board of u has no key for that slot, as after deletePick.
C11_EmptyValueDeletes ==
  [][\A s \in Sockets, sid \in SessionIds, u \in Names, sl \in SlotInputs \cap SONG_SLOTS :
       (/\ variant \in PgVariants \cup SrvVariants
        /\ CallerIs(s, u)
        /\ SetSongCompletes(s, sid, u, sl, ""))
         => /\ Broadcasts
            /\ \A i \in 1..Len(out') : out'[i].type # "error"
            /\ sl \notin DOMAIN BoardIn(Snapshot.userSongs, u)
    ]_vars

\* C12: deletePick is idempotent: a second deletePick of the same (session,
\* participant, slot), right after the first, leaves the stored state, and so
\* the snapshot read from it, as the first left it.
C12_DeletePickIdempotent ==
  [][\A id \in SessionIds, u \in StoreNames, slot \in StoreSlots :
       DeletePick(id, u, slot)
         => /\ ApiDeletePick(db', id, u, slot) = db'
            /\ ApiBuildState(ApiDeletePick(db', id, u, slot), id) = ApiBuildState(db', id)
    ]_vars

\* a deletePick of (u, Opener) has just run on a board that still holds another
\* pick of u
C12_Witness ==
  /\ Len(out) = 1
  /\ out[1].op = "deletePick"
  /\ out[1].slot = <<"Opener">>
  /\ LET board == BoardIn(ApiBuildState(db, out[1].sid).userSongs, out[1].user)
     IN DOMAIN board = {<<"Song 2">>}

\* C13: a deletePick of a slot that readState does not show on u's board (u
\* may have no board) returns normally and leaves readState's snapshot as it
\* was: same participants, same board keys, same picks.
C13_DeleteAbsentIsNoOp ==
  [][\A id \in SessionIds, u \in StoreNames, slot \in StoreSlots :
       (/\ DeletePick(id, u, slot)
        /\ slot \notin DOMAIN BoardIn(ApiBuildState(db, id).userSongs, u))
         => /\ out'[1].ok
            /\ ApiBuildState(db', id) = ApiBuildState(db, id)
    ]_vars

\* C15: clearBoard(id, u) leaves u without picks and changes nothing else:
\* readState shows the same participants as before, an empty board for u, and
\* for every other name the board it showed before.
C15_ClearBoardOnlyOwnPicks ==
  [][\A id \in SessionIds, u \in StoreNames :
       ClearBoard(id, u)
         => LET before == ApiBuildState(db, id)
                after == ApiBuildState(db', id)
            IN /\ BoardIn(after.userSongs, u) = <<>>
               /\ after.users = before.users
               /\ \A w \in (DOMAIN before.userSongs \cup DOMAIN after.userSongs) \ {u} :
                    BoardIn(after.userSongs, w) = BoardIn(before.userSongs, w)
    ]_vars

\* the requests that change picks or membership
MutationOps == {"set-song", "delete-song", "delete-user-board", "clear-all"}

\* C16: when a storage call of a mutation request fails, the step emits one
\* error event, to the requesting socket only, and ends the request; and a
\* step of a mutation request that broadcasts a snapshot is its last one, so a
\* request that fails has broadcast nothing.
C16_FailureNoBroadcast ==
  [][\A s \in Sockets :
       task[s].op \in MutationOps
         => /\ StorageFails(s)
                 => /\ Len(out') = 1
                    /\ out'[1].type = "error"
                    /\ out'[1].to = {s}
                    /\ task'[s] = Idle
            /\ (task'[s] # task[s] /\ Broadcasts) => task'[s] = Idle
    ]_vars

\* a set-song request has just failed on a storage call
C16_Witness ==
  /\ variant \in PgVariants
  /\ Len(out) = 1
  /\ out[1].type = "error"
  /\ out[1].msg = "Save failed"
  /\ \E s \in Sockets : out[1].to = {s} /\ bound[s].all # {}

\* C17: a set-song or delete-song request by a connection that joined as A,
\* for A's own board and a slot outside SONG_SLOTS, is rejected on arrival: one
\* error event to the requester only, no storage call started, nothing stored
\* and no snapshot broadcast.
C17_UnknownSlotRejected ==
  [][\A s \in Sockets, sid \in SessionIds, A \in Names, sl \in SlotInputs \ SONG_SLOTS :
       (/\ variant \in PgVariants \cup SrvVariants
        /\ CallerIs(s, A)
        /\ A \in Participants(sid)
        /\ \/ \E v \in ValueInputs : SetSongArrives(s, sid, sl, v, A) \/ SrvSetSong(s, sid, sl, v)
           \/ DeleteSongArrives(s, sid, sl, A)
           \/ SrvDeleteSong(s, sid, sl))
         => /\ task'[s] = Idle
            /\ UNCHANGED <<db, sessions>>
            /\ Len(out') = 1
            /\ out'[1].type = "error"
            /\ out'[1].to = {s}
    ]_vars

\* C14: when a clear-all request of a connection that joined as A, a
\* participant of the session, ends with a snapshot, every board of that
\* snapshot and of the session's state is empty; no step of the request
\* changes the session's participants.
C14_ClearAllEmptiesEveryBoard ==
  [][\A s \in Sockets, sid \in SessionIds, A \in Names :
       (/\ CallerIs(s, A)
        /\ A \in Participants(sid)
        /\ \/ StepOf(s, "clear-all") /\ task[s].sid = sid
           \/ M0ClearAll(s, sid))
         => /\ Participants(sid)' = Participants(sid)
            /\ (Broadcasts /\ task'[s] = Idle)
                 => /\ \A u \in DOMAIN Snapshot.userSongs : Snapshot.userSongs[u] = <<>>
                    /\ \A i \in DOMAIN Boards(sid)' :
                         \A u \in DOMAIN Boards(sid)'[i] : Boards(sid)'[i][u] = <<>>
    ]_vars

\* C18: a join request whose session id is empty, or whose username is empty
\* once trimmed, is rejected on arrival: one error event to the requester, no
\* storage call started, nothing stored, no room joined, no snapshot; a join
\* with a session id and a name that are not empty is not rejected on arrival:
\* its first storage call is started.
C18_JoinValidation ==
  [][\A s \in Sockets, sid \in SidInputs, u \in NameInputs \cup BlankNames :
       (PgJoin(s, sid, u) \/ SrvJoin(s, sid, u))
         => IF sid = "" \/ Trim(u) = Null
            THEN /\ task'[s] = Idle
                 /\ Len(out') = 1
                 /\ out'[1].type = "error"
                 /\ out'[1].to = {s}
                 /\ UNCHANGED <<db, sessions, rooms>>
            ELSE /\ task'[s].op = "join"
                 /\ out' = <<>>
    ]_vars

\* C19: the step in which a connection closes leaves every session's owner,
\* participants and boards as they were (in the socketMap revision: the
\* snapshot api.buildState reads).
C19_DisconnectKeepsState ==
  [][\A s \in Sockets :
       (task[s] # Gone /\ task'[s] = Gone)
         => \A sid \in SessionIds :
              IF variant \in SrvVariants
              THEN SrvBuildState(db', sid) = SrvBuildState(db, sid)
              ELSE /\ Owner(sid)' = Owner(sid)
                   /\ Participants(sid)' = Participants(sid)
                   /\ Boards(sid)' = Boards(sid)
    ]_vars

\* a connection that joined a session and set a pick has closed
C19_Witness ==
  \E s \in Sockets, sid \in SessionIds :
    /\ task[s] = Gone
    /\ \E u \in bound[s].all :
         /\ u \in Participants(sid)
         /\ \E i \in DOMAIN Boards(sid) : BoardIn(Boards(sid)[i], u) # <<>>

\* a join request for session sid ends in this step with a snapshot
JoinBroadcasts(sid) ==
  /\ Broadcasts
  /\ \E s \in Sockets :
       \/ task[s].op = "join" /\ task[s].sid = sid /\ task'[s] = Idle
       \/ \E w \in NameInputs \cup BlankNames : M0Join(s, sid, w)

\* C20: a participant u whose connection has closed is not lost by later
\* joins: the snapshot of every join that follows lists u and shows u's board
\* exactly as the session held it.
C20_ReconnectKeepsData ==
  [][\A o \in Sockets, sid \in SessionIds, u \in Names :
       (/\ task[o] = Gone
        /\ u \in bound[o].all
        /\ u \in Participants(sid)
        /\ JoinBroadcasts(sid))
         => /\ u \in SnapNames(Snapshot)
            /\ \A i \in DOMAIN BoardOf(sid, u) :
                 BoardIn(Snapshot.userSongs, u) = BoardOf(sid, u)[i]
    ]_vars

\* C21: after the same sequence of storage calls, buildState of the in-memory
\* backend and buildState of the server's durable backend return the same
\* snapshot: participants in the same order, same board keys, same picks.
C21_BackendsAgree ==
  \A id \in SessionIds : MemBuildState(db, id) = ApiBuildState(sessions, id)

\* a name in lower case
Lower(x) == [i \in 1..Len(x) |-> CASE x[i] = "A" -> "a" [] x[i] = "B" -> "b" [] OTHER -> x[i]]

\* C22: the participants of every snapshot buildState returns are in
\* case-insensitive lexicographic order of name: no name made of letters comes
\* after one that, in lower case, is greater.
C22_ParticipantsSorted ==
  \A id \in SessionIds :
    LET us == ApiBuildState(db, id).users
        Letters(x) == \A i \in 1..Len(x) : x[i] \in {"a", "b", "A", "B"}
    IN \A i, j \in 1..Len(us) :
         (i < j /\ Letters(us[i].username) /\ Letters(us[j].username))
           => ~CLess(Lower(us[j].username), Lower(us[i].username))

\* C23: once a session has an owner, no step changes it: not a join, a
\* reconnection, a set, a delete, a clear-all, nor a delete-user-board, even
\* one that removes the owner from the participants.
C23_OwnerNeverReassigned ==
  [][\A sid \in SessionIds :
       (variant \in PgVariants \cup {"p002"} /\ Owner(sid) # Null)
         => Owner(sid)' = Owner(sid)
    ]_vars

\* the owner has been removed from the participants and somebody else is one
C23_Witness ==
  \E sid \in SessionIds :
    /\ variant \in PgVariants \cup {"p002"}
    /\ Owner(sid) # Null
    /\ Owner(sid) \notin Participants(sid)
    /\ Participants(sid) # {}

\* nobody has joined session sid: no owner, no participant, no pick
Untouched(sid) ==
  /\ Owner(sid) = Null
  /\ Participants(sid) = {}
  /\ \A i \in DOMAIN Boards(sid) :
       \A u \in DOMAIN Boards(sid)[i] : Boards(sid)[i][u] = <<>>

\* C24: while nobody has joined a session, no step of a set-song, delete-song,
\* clear-all or delete-user-board request (any step that is not a join's)
\* gives it a participant, a pick or an owner.
C24_NoJoinNoState ==
  [][\A sid \in SessionIds :
       (/\ variant \in Variants
        /\ Untouched(sid)
        /\ \A s \in Sockets :
             /\ task[s].op # "join"
             /\ task'[s].op # "join"
             /\ \A i \in SidInputs, u \in NameInputs : ~M0Join(s, i, u))
         => Untouched(sid)'
    ]_vars

\* what the revision keeps of one session, in storage d and process memory m:
\* owner, participants, boards (for the handlers over `api`, its snapshot)
SessionView(d, m, sid) ==
  IF variant \in SrvVariants THEN <<SrvBuildState(d, sid)>>
  ELSE IF variant \in PgVariants
  THEN <<IF sid \in DOMAIN d.sess THEN <<d.sess[sid]>> ELSE <<>>,
         {p \in d.users : p[1] = sid}, RowsToSongs(d.picks, sid)>>
  ELSE IF variant = "p002"
  THEN <<RowsToSongs(d.picks, sid), IF sid \in DOMAIN m THEN <<m[sid]>> ELSE <<>>>>
  ELSE <<IF sid \in DOMAIN m THEN <<m[sid]>> ELSE <<>>>>

\* C25: every step of every request acts on one session only: the step of a
\* request for session a (its arrival included) leaves the owner, participants
\* and boards of every other session unchanged, whether it succeeds or fails;
\* no step changes two sessions; and every snapshot it sends is about one
\* session and goes only to connections that are in that session's room.
C25_SessionIsolation ==
  [][/\ \A s \in Sockets, a \in IsoSessionIds : \A b \in IsoSessionIds \ {a} :
          (/\ task'[s] # task[s]
           /\ task[s].sid = a \/ (task[s].pc = "" /\ task'[s].sid = a))
            => SessionView(db', sessions', b) = SessionView(db, sessions, b)
     /\ \A a \in IsoSessionIds : \A b \in IsoSessionIds \ {a} :
          SessionView(db', sessions', a) # SessionView(db, sessions, a)
            => SessionView(db', sessions', b) = SessionView(db, sessions, b)
     /\ \A i \in 1..Len(out') :
          out'[i].type = "update-session"
            => /\ out'[i].msg \in IsoSessionIds
               /\ out'[i].to \subseteq {o \in Sockets : out'[i].msg \in rooms'[o]}
               /\ \A b \in IsoSessionIds \ {out'[i].msg} :
                    SessionView(db', sessions', b) = SessionView(db, sessions, b)
    ]_vars

\* two sessions with a participant each, their sockets in different rooms, and
\* a snapshot of one of them just sent to a nonempty audience
C25_Witness ==
  /\ \A sid \in IsoSessionIds : Participants(sid) # {}
  /\ \E s, o \in Sockets : rooms[s] = {"s1"} /\ rooms[o] = {"s2"}
  /\ \E i \in 1..Len(out) : out[i].type = "update-session" /\ out[i].to # {}

\* C26: every key of a session's boards is a name that was added to the
\* session's participants at or before that state. The case checked: a session
\* whose snapshot has no participants never had any (no storage call removes
\* the last participant), so its boards have no key.
C26_BoardKeysWereParticipants ==
  \A id \in SessionIds :
    SnapNames(ApiBuildState(db, id)) = {} => DOMAIN ApiBuildState(db, id).userSongs = {}

\* no request is in flight
Quiescent == \A s \in Sockets : task[s].pc = ""

\* the picks of a snapshot's boards, as (name, slot, value) triples
PicksOf(songs) ==
  UNION {{<<u, sl, songs[u][sl]>> : sl \in DOMAIN songs[u]} : u \in DOMAIN songs}

\* snapshot st shows what storage holds of session sid: the whole state where
\* storage holds it, the picks where storage holds only those (sqlite), the
\* session object where there is no storage
ShowsCommitted(st, sid) ==
  IF variant \in SrvVariants THEN st = SrvBuildState(db, sid)
  ELSE IF variant \in PgVariants
  THEN st = [owner |-> Owner(sid),
             users |-> AsUsers(SortC(Participants(sid))),
             userSongs |-> RowsToSongs(db.picks, sid)]
  ELSE IF variant = "p002" THEN PicksOf(st.userSongs) = PicksOf(RowsToSongs(db.picks, sid))
  ELSE sid \in DOMAIN sessions /\ st = sessions[sid]

\* C27: when requests on a session overlapped and all of them have finished,
\* the snapshot that the request finishing last delivered to the session's
\* subscribers (the last one they received) equals the committed storage state.
C27_LastSnapshotIsCommitted ==
  (Quiescent /\ nover > 0)
    => \A i \in 1..Len(out) :
         (out[i].type = "update-session" /\ out[i].to # {})
           => ShowsCommitted(out[i].state, out[i].msg)

\* a create request arrives on socket s (not one of the requests of C28)
CreateArrives(s) == \E sid \in SidInputs : M0Create(s, sid) \/ S2Create(s, sid)

\* this step broadcasts a snapshot / sends an error event to socket s only
SnapshotSent == \E i \in 1..Len(out') : out'[i].type = "update-session"
ErrorSentTo(s) == \E i \in 1..Len(out') : out'[i].type = "error" /\ out'[i].to = {s}

\* C28: the step that ends a join, set, delete, clear-all or delete-board
\* request (the last step of its handler, or its arrival when the handler
\* returns at once) either broadcasts a snapshot or sends an error event to the
\* requester: never neither, never both.
C28_OneOutcome ==
  [][/\ \A s \in Sockets :
          (task[s].pc # "" /\ task'[s].pc = "") => (SnapshotSent # ErrorSentTo(s))
     /\ (nreq' = nreq + 1 /\ task' = task /\ ~\E s \in Sockets : CreateArrives(s))
          => (SnapshotSent # \E s \in Sockets : ErrorSentTo(s))
    ]_vars

\* the target is neither a participant nor the holder of a board
AbsentFromBoth(v) == ~v.member /\ \A i \in DOMAIN v.board : v.board[i] = <<>>

\* C29: when a delete-user-board request finishes, with a broadcast or with a
\* storage failure, its target is absent from both the participants and the
\* boards, or the target's membership and board are what they were when the
\* request arrived.
C29_RemovesBoth ==
  [][\A s \in Sockets :
       (task[s].op = "delete-user-board" /\ task[s].pc # "" /\ task'[s].pc = "")
         => LET now == TargetView(db', sessions', task[s].sid, task[s].user)
            IN AbsentFromBoth(now) \/ <<now>> = task[s].pre
    ]_vars

\* storage has a record of session sid
SessionKnown(sid) ==
  IF variant \in PgVariants THEN sid \in DOMAIN db.sess
  ELSE IF variant = "srv-mem" THEN sid \in DOMAIN db
  ELSE IF variant = "srv-fs" THEN sid \in db.sess
  ELSE FALSE

\* the queries of ensureSession and ensureUser as socket s's handler runs
\* them: each leaves storage as it is when what it ensures is there (the
\* session for the insert, `exists` for the owner update, the participant for
\* ensureUser), the owner update touches nothing but the owner, and running
\* the same query again changes nothing
EnsureSteps(s, exists) ==
  LET sid == task[s].sid
      u == task[s].user
  IN /\ PgEnsureSessionInsert(s)
          => /\ SessionKnown(sid) => db' = db
             /\ InsertSession(db', sid) = db'
     /\ PgEnsureSessionOwner(s)
          => /\ exists => db' = db
             /\ db'.users = db.users /\ db'.picks = db.picks
             /\ CoalesceOwner(db', sid, u) = db'
     /\ PgEnsureUser(s)
          => /\ u \in Participants(sid) => db' = db
             /\ InsertUser(db', sid, u) = db'
     /\ SrvEnsureSession(s)
          => /\ SessionKnown(sid) => db' = db
             /\ ApiEnsureSession(db', sid) = db'
     /\ SrvEnsureUser(s)
          => /\ u \in Participants(sid) => db' = db
             /\ ApiEnsureUser(db', sid, u) = db'

\* C30: ensureSession and ensureUser are idempotent and non-destructive:
\* called on a session whose owner is set, or on a participant that is there,
\* they leave the owner, the participants and every pick unchanged; on a
\* session without owner ensureSession(id, maybeOwner) changes the owner
\* and nothing else; a second call changes nothing.
C30_EnsureIdempotent ==
  [][\A s \in Sockets : EnsureSteps(s, Owner(task[s].sid) # Null)]_vars

\* C30 as stated: on every session that already exists (here: one that has
\* participants when the join's ensureSession runs), the owner is unchanged too
C30_EnsureKeepsOwner ==
  [][\A s \in Sockets : EnsureSteps(s, Participants(task[s].sid) # {})]_vars

\* a join's ensureSession and ensureUser have run on a session that has an
\* owner and a pick, for a name that an earlier join made a participant
C30_Witness ==
  \E s \in Sockets, o \in Sockets :
    /\ o # s
    /\ task[s].op = "join"
    /\ task[s].pc \in {"rdO", "read"}
    /\ task[s].user \in bound[o].all
    /\ task[s].user \in Participants(task[s].sid)
    /\ variant \in PgVariants => Owner(task[s].sid) # Null
    /\ \E i \in DOMAIN Boards(task[s].sid) :
         \E n \in DOMAIN Boards(task[s].sid)[i] : Boards(task[s].sid)[i][n] # <<>>

\* the boards of snapshot st hold the picks that storage holds of session sid
BoardsShowStorage(st, sid) ==
  IF variant \in SrvVariants THEN st.userSongs = SrvBuildState(db, sid).userSongs
  ELSE PicksOf(st.userSongs) = PicksOf(RowsToSongs(db.picks, sid))

\* C31: the snapshot that a set, delete, delete-board or clear-all handler
\* publishes when it succeeds comes from a read of storage made after its
\* write: its boards hold the picks that storage holds when it is published
\* (the handlers that read do so in the step that publishes).
C31_PublishesStorageRead ==
  [][\A s \in Sockets :
       (task[s].op \in MutationOps /\ task[s].pc # "" /\ task'[s].pc = "")
         => \A i \in 1..Len(out') :
              out'[i].type = "update-session"
                => BoardsShowStorage(out'[i].state, task[s].sid)
    ]_vars

\* a set-song, delete-song or clear-all request arrives on socket s of the
\* socketMap-based server, whatever its payload
SrvMutationArrives(s) ==
  \E sid \in SidInputs :
    \/ \E sl \in SlotInputs, v \in ValueInputs : SrvSetSong(s, sid, sl, v)
    \/ \E sl \in SlotInputs : SrvDeleteSong(s, sid, sl)
    \/ SrvClearAll(s, sid)

\* u's board in the snapshot of session sid read from storage d (none: <<>>)
SrvBoard(d, sid, u) ==
  LET songs == SrvBuildState(d, sid).userSongs
  IN IF u \in DOMAIN songs THEN <<songs[u]>> ELSE <<>>

Recognised(m, s, sid, u) ==
  IF variant \in PgVariants THEN TRUE
  ELSE IF variant \in SrvVariants
  THEN s \in DOMAIN m /\ m[s].sessionId = sid /\ m[s].username = u
  ELSE IF sid \notin DOMAIN m THEN FALSE
  ELSE IF variant = "p002" THEN S2Caller(m[sid], s) = u
  ELSE LET i == FindBySocket(m[sid].users, s)
       IN i # 0 /\ m[sid].users[i].username = u

\* what is kept of u's board in session sid (none: <<>>)
NameBoard(d, m, sid, u) ==
  IF variant \in SrvVariants THEN SrvBoard(d, sid, u)
  ELSE IF variant = "mem0"
  THEN IF sid \in DOMAIN m /\ u \in DOMAIN m[sid].userSongs
       THEN <<m[sid].userSongs[u]>> ELSE <<>>
  ELSE TargetView(d, m, sid, u).board

\* C33: when a connection completes a join under a name that another
\* connection joined the session under and that is still a participant, the
\* picks kept for that name are unchanged, the snapshot's participants list
\* has one entry for the name, and the joining connection passes the caller
\* check for that name's board.
C33_RejoinTakesOver ==
  [][\A s \in Sockets, sid \in SessionIds, u \in Names :
       (/\ JoinCompletes(s, sid, u)
        /\ u \in Participants(sid)
        /\ \E o \in Sockets \ {s} : u \in bound[o].all /\ sid \in rooms[o])
         => /\ NameBoard(db', sessions', sid, u) = NameBoard(db, sessions, sid, u)
            /\ LET st == out'[Len(out')].state
               IN Cardinality({i \in 1..Len(st.users) : st.users[i].username = u}) = 1
            /\ Recognised(sessions', s, sid, u)
    ]_vars

\* C34: boards of distinct names do not interfere: a pick written for (u, slot)
\* is reported by buildState under boards[u][slot], and a write, a deletion or
\* a clearing of u's picks changes the board reported for no other name,
\* whatever characters the names hold.
C34_BoardsDoNotInterfere ==
  [][\A id \in SessionIds, u \in StoreNames, slot \in StoreSlots :
       LET before == ApiBuildState(db, id).userSongs
           after == ApiBuildState(db', id).userSongs
       IN /\ \A X \in StoreValues :
               (UpsertPick(id, u, slot, X) /\ out'[1].ok)
                 => u \in DOMAIN after /\ slot \in DOMAIN after[u] /\ after[u][slot] = X
          /\ (\/ \E X \in StoreValues : UpsertPick(id, u, slot, X)
              \/ DeletePick(id, u, slot)
              \/ ClearBoard(id, u))
               => \A w \in (DOMAIN before \cup DOMAIN after) \ {u} :
                    BoardIn(after, w) = BoardIn(before, w)
    ]_vars


\* The storage states a snapshot published by s may be compared with: every
\* state the session went through between the first and the last query of
\* buildSessionState; one state where the model reads in one step.
InstantsOf(s) ==
  IF variant \in PgVariants
  THEN task[s].seen \cup {PgView(db, task[s].sid)}
  ELSE {SrvBuildState(db, task[s].sid)}

\* C35: every snapshot a storage-backed request broadcasts equals the state
\* the session's storage had at one single instant of the read that produced
\* it, whatever other request on the session ran between the read's queries.
C35_SnapshotIsAtomic ==
  [][\A s \in Sockets :
       (variant \in PgVariants \cup SrvVariants /\ task[s].pc # "" /\ task'[s].pc = "")
         => \A i \in 1..Len(out') :
              out'[i].type = "update-session" => out'[i].state \in InstantsOf(s)]_vars


\* C36: a join completed by one connection under one name leaves every other
\* connection that passed the caller check for another name of the session
\* passing it still.
C36_JoinKeepsOtherBindings ==
  [][\A s \in Sockets, sid \in SessionIds, v \in Names :
       JoinCompletes(s, sid, v)
         => \A o \in Sockets, u \in Names :
              (o # s /\ u # v /\ Recognised(sessions, o, sid, u))
                => Recognised(sessions', o, sid, u)]_vars


\* socket s's join in flight has already sent 'joined': the handlers send it
\* before buildState
JoinedWasSent(s) == task[s].op = "join" /\ task[s].pc \in {"read", "rdO", "rdU", "rdP"}

\* no name passes the caller check for socket s in any session (the Postgres
\* revisions record no identity)
NoIdentity(m, s) ==
  variant \notin PgVariants
    => \A sid \in SessionIds, u \in Names : ~Recognised(m, s, sid, u)

\* C37: when a join, the first request the server ever received, ends with an
\* error event to its sender, the sender was not sent 'joined', is subscribed
\* to no session and no identity is recorded for it.
C37_JoinAllOrNothing ==
  [][\A s \in Sockets :
       (/\ nreq = 1
        /\ task[s].op = "join" /\ task[s].pc # "" /\ task'[s].pc = ""
        /\ ErrorSentTo(s))
         => /\ ~JoinedWasSent(s)
            /\ rooms'[s] = {}
            /\ NoIdentity(sessions', s)]_vars


\* C38: a connection that is delivered a snapshot is subscribed to the
\* broadcasts of that snapshot's session and of no other session.
C38_OneSessionPerConnection ==
  [][\A s \in Sockets :
       \A i \in 1..Len(out') :
         (out'[i].type = "update-session" /\ s \in out'[i].to)
           => rooms'[s] = {out'[i].msg}]_vars

==============================================================================
